---- MODULE Spec2Model ----
(***************************************************************************)
(* The evidence pool of evidence/pool.go: the pending and committed sets   *)
(* of the evidence store, the broadcast list, the size counter, the cached *)
(* state, the consensus buffer and the expiry cursor, with one action per  *)
(* public operation of Pool.                                               *)
(***************************************************************************)
EXTENDS Integers, Sequences, FiniteSets, TLC

(***************************************************************************)
(* Bounds of the model.                                                    *)
(***************************************************************************)
\* heights the chain reaches (Update stops there)
MaxHeight == 3
\* pairs of conflicting votes the consensus buffer holds
MaxBuffer == 2
\* items of the evidence list of a block (CheckEvidence, Update)
MaxEvList == 2
\* the size counter the model follows the pool up to
MaxSize == 2
\* the byte budget a proposer asks pending evidence for
MaxBytes == 5
\* conflicting blocks of light client attacks at one height
MaxBlock == 3
\* block times the chain reaches (a block is one or two seconds after the last)
MaxTime == MaxHeight + 1

(***************************************************************************)
(* evidenceSize is a uint32: a value is kept as its two 16-bit halves,     *)
(* <<high, low>>, and the arithmetic is the one of the machine, modulo     *)
(* 2^32.                                                                   *)
(***************************************************************************)
HalfWord == 65536
Uint32(n) == <<(n \div HalfWord) % HalfWord, n % HalfWord>>
Uint32Add(a, b) ==
    LET low == a[2] + b[2]
    IN <<(a[1] + b[1] + (low \div HalfWord)) % HalfWord, low % HalfWord>>
\* ^x: the bitwise complement
Uint32Not(a) == <<(HalfWord - 1) - a[1], (HalfWord - 1) - a[2]>>

(***************************************************************************)
(* Evidence.  A DuplicateVoteEvidence is made of the two votes (here the   *)
(* height they were cast at: one validator double-signs per height), the   *)
(* timestamp and the validator set of that height.  A                      *)
(* LightClientAttackEvidence is made of the conflicting block, the common  *)
(* height, its timestamp and the list of byzantine validators.             *)
(***************************************************************************)
Validator(address, power) == [Address |-> address, VotingPower |-> power]
ValA == Validator(1, 2)
ValB == Validator(2, 1)

\* the validator set of the chain at a height (the state store's history)
ValidatorsAt(height) == height

NewDuplicateVoteEvidence(voteHeight, time, valSet) ==
    [type |-> "dve", Height |-> voteHeight, Time |-> time, ValSet |-> valSet,
     Block |-> 0, ByzantineValidators |-> <<>>]

LightClientAttackEvidence(block, commonHeight, time, byzVals) ==
    [type |-> "lca", Height |-> commonHeight, Time |-> time, ValSet |-> 0,
     Block |-> block, ByzantineValidators |-> byzVals]

\* Hash: a DuplicateVoteEvidence hashes its whole content, a
\* LightClientAttackEvidence only the conflicting block and the common height
\* (not the byzantine validators, not the timestamp).  The digest is an
\* injective code of the hashed fields, ordered unlike height and time.
Hash(ev) ==
    IF ev.type = "dve"
    THEN 1000 - (100 * ev.Time + 10 * ev.ValSet) + ev.Height
    ELSE 2000 + 10 * ev.Block + ev.Height

\* keyPending / keyCommitted: orderedcode of (prefix, height, hash); the prefix
\* is the set the key is looked up in
Key(ev) == <<ev.Height, Hash(ev)>>

\* (a slip: the height is left out of the key)
KeyLessByHash(k1, k2) == k1[2] < k2[2]

\* byte-wise order of two keys of one prefix: by height, then by hash
KeyLess(k1, k2) == k1[1] < k2[1] \/ (k1[1] = k2[1] /\ k1[2] < k2[2])

(***************************************************************************)
(* The evidence peers, proposers and committed blocks can carry.           *)
(***************************************************************************)
RECURSIVE SeqsUpTo(_, _)
SeqsUpTo(S, n) ==
    IF n = 0 THEN {<<>>}
    ELSE LET shorter == SeqsUpTo(S, n - 1)
         IN shorter \cup {Append(s, x) : s \in {q \in shorter : Len(q) = n - 1}, x \in S}

EvidenceParams == [MaxAgeNumBlocks |-> 1, MaxAgeDuration |-> 1]

State(height, time) ==
    [LastBlockHeight |-> height, LastBlockTime |-> time,
     MaxAgeNumBlocks |-> EvidenceParams.MaxAgeNumBlocks,
     MaxAgeDuration |-> EvidenceParams.MaxAgeDuration,
     LastValidators |-> ValidatorsAt(height)]

\* the state the node starts from
InitHeight == 1
InitTime == 1

\* a pair of conflicting votes, as consensus reports it
duplicateVoteSet(height) == [VoteA |-> [Height |-> height], VoteB |-> [Height |-> height]]
VoteSets == {duplicateVoteSet(h) : h \in {InitHeight + 1, InitHeight + 2}}

VARIABLES
    pending,          \* evidenceStore under prefixPending: the stored evidence
    committed,        \* evidenceStore under prefixCommitted: [key, height]
    evidenceList,     \* the broadcast list, front first
    evidenceSize,     \* the uint32 size counter
    state,            \* the cached state
    consensusBuffer,  \* the buffered pairs of conflicting votes
    pruningHeight,    \* the expiry cursor
    pruningTime,
    blockStore,       \* header time of each stored block, 0 where there is none
    calls,            \* the call of AddEvidence each thread is in, and where
    updating,         \* the call of Update in progress, and the step it is at
    mtx,              \* the holder of the mutex of the pool
    gossip            \* the gossip loop: what it does with the broadcast list

poolVars == <<pending, committed, evidenceList, evidenceSize, state,
              consensusBuffer, pruningHeight, pruningTime>>
vars == <<pending, committed, evidenceList, evidenceSize, state,
          consensusBuffer, pruningHeight, pruningTime, blockStore, calls,
          updating, mtx, gossip>>

\* the fields of Pool, as one value the operations transform
Pool ==
    [pending |-> pending, committed |-> committed, evidenceList |-> evidenceList,
     evidenceSize |-> evidenceSize, state |-> state,
     consensusBuffer |-> consensusBuffer,
     pruningHeight |-> pruningHeight, pruningTime |-> pruningTime]

(***************************************************************************)
(* The stores the pool reads: the block store gives the header time of a   *)
(* height, the state store its validator set; both know the heights whose  *)
(* block was stored.                                                       *)
(***************************************************************************)
NoBlock == 0
LoadBlockMeta(height) == blockStore[height]
LoadValidatorsFails(height) == blockStore[height] = NoBlock
LoadValidators(height) == ValidatorsAt(height)

(***************************************************************************)
(* Helpers of the pool.                                                    *)
(***************************************************************************)
\* the stored evidence in key order, as the prefix iterator yields it
RECURSIVE IteratePrefix(_)
IteratePrefix(stored) ==
    IF stored = {} THEN <<>>
    ELSE LET first == CHOOSE e \in stored :
                          \A o \in stored : o = e \/ KeyLess(Key(e), Key(o))
         IN <<first>> \o IteratePrefix(stored \ {first})

\* evidenceStore.Get(keyPending(ev)): the stored evidence under the key, if any
StoredUnder(p, key) == {e \in p.pending : Key(e) = key}

isPending(p, ev) == \E e \in p.pending : Key(e) = Key(ev)

\* (a slip: the key of the other prefix)
isCommittedPendingKey(p, ev) == \E e \in p.pending : Key(e) = Key(ev)

isCommitted(p, ev) == \E c \in p.committed : c.key = Key(ev)

\* (a slip: old in height or in time)
isExpiredByEither(p, height, time) ==
    LET ageDuration == p.state.LastBlockTime - time
        ageNumBlocks == p.state.LastBlockHeight - height
    IN ageNumBlocks > p.state.MaxAgeNumBlocks \/ ageDuration > p.state.MaxAgeDuration

isExpired(p, height, time) ==
    LET ageDuration == p.state.LastBlockTime - time
        ageNumBlocks == p.state.LastBlockHeight - height
    IN ageNumBlocks > p.state.MaxAgeNumBlocks /\ ageDuration > p.state.MaxAgeDuration

\* sort.Sort(types.ValidatorsByVotingPower(vals)): by voting power descending,
\* by address ascending among equal powers
ValidatorLess(a, b) ==
    IF a.VotingPower = b.VotingPower THEN a.Address < b.Address
    ELSE a.VotingPower > b.VotingPower

RECURSIVE SortValidators(_)
SortValidators(vals) ==
    IF vals = <<>> THEN <<>>
    ELSE LET i == CHOOSE k \in 1 .. Len(vals) :
                      \A j \in 1 .. Len(vals) :
                          j = k \/ ValidatorLess(vals[k], vals[j])
                          \/ (vals[j] = vals[k] /\ k < j)
         IN <<vals[i]>> \o
            SortValidators([j \in 1 .. (Len(vals) - 1) |->
                               IF j < i THEN vals[j] ELSE vals[j + 1]])

\* verify(ev): not older than the expiry window in height and in time, the
\* evidence matches the history of the chain (its block is stored, its
\* timestamp is the header time and its validator set the one of its height),
\* and the byzantine validators of a light client attack are listed, sorted
verify(p, ev) ==
    /\ ev.Height <= p.state.LastBlockHeight
    /\ ev.Height >= p.state.LastBlockHeight - p.state.MaxAgeNumBlocks
    /\ ev.Time >= p.state.LastBlockTime - p.state.MaxAgeDuration
    /\ ~LoadValidatorsFails(ev.Height)
    /\ ev.Time = LoadBlockMeta(ev.Height)
    /\ ev.type = "dve" => ev.ValSet = LoadValidators(ev.Height)
    /\ ev.type = "lca" =>
          /\ ev.ByzantineValidators # <<>>
          /\ SortValidators(ev.ByzantineValidators) = ev.ByzantineValidators

\* evidenceStore.Set(key, value): one value per key
StoreSet(stored, ev) == {e \in stored : Key(e) # Key(ev)} \cup {ev}

addPendingEvidence(p, ev) ==
    [p EXCEPT !.pending = StoreSet(p.pending, ev),
              !.evidenceSize = Uint32Add(p.evidenceSize, Uint32(1))]

\* addPendingEvidence when the write to the store fails: the error is returned
\* before the size is counted, and the store holds what it held
addPendingEvidenceSetFails(p, ev) == p

\* evidenceList.PushBack(ev)
PushBack(p, ev) == [p EXCEPT !.evidenceList = Append(p.evidenceList, ev)]

\* (a slip: the complement of n, not of n - 1, is added)
SubtractSizeOneMore(size, n) == Uint32Add(size, Uint32Not(Uint32(n)))

\* atomic.AddUint32(&evidenceSize, ^uint32(n - 1))
SubtractSize(size, n) == Uint32Add(size, Uint32Not(Uint32(n - 1)))

\* (a slip: an element is removed by moving the last element into its place)
RECURSIVE removeEvidenceFromListSwapping(_, _)
removeEvidenceFromListSwapping(list, blockEvidenceMap) ==
    IF \A i \in 1 .. Len(list) : Hash(list[i]) \notin blockEvidenceMap THEN list
    ELSE LET n == Len(list)
             i == CHOOSE i \in 1 .. n :
                      /\ Hash(list[i]) \in blockEvidenceMap
                      /\ \A j \in 1 .. i - 1 : Hash(list[j]) \notin blockEvidenceMap
             swapped == [k \in 1 .. n - 1 |-> IF k = i THEN list[n] ELSE list[k]]
         IN removeEvidenceFromListSwapping(swapped, blockEvidenceMap)

removeEvidenceFromList(list, blockEvidenceMap) ==
    SelectSeq(list, LAMBDA ev : Hash(ev) \notin blockEvidenceMap)

\* (a slip: a light client attack is looked up by its key only)
fastCheckByKey(p, ev) == isPending(p, ev)

\* (a slip: only a light client attack is looked up)
fastCheckAttacksOnly(p, ev) ==
    IF ev.type = "lca"
    THEN LET found == StoredUnder(p, Key(ev))
         IN IF found = {} THEN FALSE
            ELSE LET trustedEv == CHOOSE e \in found : TRUE
                     byzValsCopy == SortValidators(ev.ByzantineValidators)
                 IN /\ Len(trustedEv.ByzantineValidators) = Len(ev.ByzantineValidators)
                    /\ \A idx \in 1 .. Len(trustedEv.ByzantineValidators) :
                          /\ byzValsCopy[idx].Address =
                                 trustedEv.ByzantineValidators[idx].Address
                          /\ byzValsCopy[idx].VotingPower =
                                 trustedEv.ByzantineValidators[idx].VotingPower
    ELSE FALSE

fastCheck(p, ev) ==
    IF ev.type = "lca"
    THEN LET found == StoredUnder(p, Key(ev))
         IN IF found = {} THEN FALSE
            ELSE LET trustedEv == CHOOSE e \in found : TRUE
                     byzValsCopy == SortValidators(ev.ByzantineValidators)
                 IN /\ Len(trustedEv.ByzantineValidators) = Len(ev.ByzantineValidators)
                    /\ \A idx \in 1 .. Len(trustedEv.ByzantineValidators) :
                          /\ byzValsCopy[idx].Address =
                                 trustedEv.ByzantineValidators[idx].Address
                          /\ byzValsCopy[idx].VotingPower =
                                 trustedEv.ByzantineValidators[idx].VotingPower
    ELSE isPending(p, ev)

(***************************************************************************)
(* Results of the operations.                                              *)
(***************************************************************************)
Ok == "ok"
ErrCommitted == "invalid evidence: evidence was already committed"
ErrDuplicate == "invalid evidence: duplicate evidence"
ErrVerify == "invalid evidence: verification failed"
ErrStorage == "failed to add evidence to pending list"
Panic == "panic"
Invalid == {ErrCommitted, ErrDuplicate, ErrVerify}

Result(p, ret) == [pool |-> p, ret |-> ret]

(***************************************************************************)
(* AddEvidence                                                             *)
(***************************************************************************)
\* (a slip: no check that the evidence is committed)
AddEvidenceUncheckedCommitted(p, ev) ==
    IF isPending(p, ev) THEN Result(p, Ok)
    ELSE IF ~verify(p, ev) THEN Result(p, ErrVerify)
    ELSE Result(PushBack(addPendingEvidence(p, ev), ev), Ok)

\* (a slip: verify comes before the check that the evidence is committed)
AddEvidenceVerifyingFirst(p, ev) ==
    IF isPending(p, ev) THEN Result(p, Ok)
    ELSE IF ~verify(p, ev) THEN Result(p, ErrVerify)
    ELSE IF isCommitted(p, ev) THEN Result(p, Ok)
    ELSE Result(PushBack(addPendingEvidence(p, ev), ev), Ok)

\* (a slip: the evidence is stored before it is verified)
AddEvidenceStoringFirst(p, ev) ==
    IF isPending(p, ev) THEN Result(p, Ok)
    ELSE IF isCommitted(p, ev) THEN Result(p, Ok)
    ELSE LET p1 == PushBack(addPendingEvidence(p, ev), ev)
         IN IF ~verify(p1, ev) THEN Result(p1, ErrVerify) ELSE Result(p1, Ok)

\* (a slip: no check that the evidence is pending)
AddEvidenceUncheckedPending(p, ev) ==
    IF isCommitted(p, ev) THEN Result(p, Ok)
    ELSE IF ~verify(p, ev) THEN Result(p, ErrVerify)
    ELSE Result(PushBack(addPendingEvidence(p, ev), ev), Ok)

\* (a slip: the evidence is stored and not put on the broadcast list)
AddEvidenceUnlisted(p, ev) ==
    IF isPending(p, ev) THEN Result(p, Ok)
    ELSE IF isCommitted(p, ev) THEN Result(p, Ok)
    ELSE IF ~verify(p, ev) THEN Result(p, ErrVerify)
    ELSE Result(addPendingEvidence(p, ev), Ok)

AddEvidence(p, ev) ==
    IF isPending(p, ev) THEN Result(p, Ok)
    ELSE IF isCommitted(p, ev) THEN Result(p, Ok)
    ELSE IF ~verify(p, ev) THEN Result(p, ErrVerify)
    ELSE Result(PushBack(addPendingEvidence(p, ev), ev), Ok)

\* (a slip: the error of the store is logged and the call goes on, as in
\* CheckEvidence)
AddEvidenceSetFailsLogged(p, ev) ==
    IF isPending(p, ev) THEN Result(p, Ok)
    ELSE IF isCommitted(p, ev) THEN Result(p, Ok)
    ELSE IF ~verify(p, ev) THEN Result(p, ErrVerify)
    ELSE Result(PushBack(addPendingEvidenceSetFails(p, ev), ev), Ok)

\* AddEvidence when the write to the store fails
AddEvidenceSetFails(p, ev) ==
    IF isPending(p, ev) THEN Result(p, Ok)
    ELSE IF isCommitted(p, ev) THEN Result(p, Ok)
    ELSE IF ~verify(p, ev) THEN Result(p, ErrVerify)
    ELSE Result(addPendingEvidenceSetFails(p, ev), ErrStorage)

(***************************************************************************)
(* ReportConflictingVotes                                                  *)
(***************************************************************************)
\* (a slip: the evidence is formed and stored at once, with the cached state)
ReportConflictingVotesEager(p, voteSet) ==
    LET dve == NewDuplicateVoteEvidence(voteSet.VoteA.Height, p.state.LastBlockTime,
                                        p.state.LastValidators)
    IN PushBack(addPendingEvidence(
           [p EXCEPT !.consensusBuffer = Append(p.consensusBuffer, voteSet)], dve), dve)

ReportConflictingVotes(p, voteSet) ==
    [p EXCEPT !.consensusBuffer = Append(p.consensusBuffer, voteSet)]

(***************************************************************************)
(* EvidenceFront, EvidenceWaitChan                                         *)
(***************************************************************************)
\* no element
Nil == [type |-> "nil"]

\* the first element of the broadcast list
EvidenceFront(p) == IF p.evidenceList = <<>> THEN Nil ELSE Head(p.evidenceList)

\* the wait channel of the list: closed while the list has an element; a
\* list that becomes empty gets a new, open channel
EvidenceWaitChan(p) == IF p.evidenceList = <<>> THEN "open" ELSE "closed"

(***************************************************************************)
(* CheckEvidence                                                           *)
(***************************************************************************)
\* (a slip: the loop stops before the first item)
duplicateInListAfterFirst(evList, idx) ==
    \E i \in 2 .. (idx - 1) : Hash(evList[i]) = Hash(evList[idx])

\* the hash of item idx equals the hash of an earlier item of the list
duplicateInList(evList, idx) ==
    \E i \in 1 .. (idx - 1) : Hash(evList[i]) = Hash(evList[idx])

RECURSIVE checkFrom(_, _, _)
checkFrom(p, evList, idx) ==
    IF idx > Len(evList) THEN Result(p, Ok)
    ELSE LET ev == evList[idx]
             ok == fastCheck(p, ev)
         IN IF ~ok /\ isCommitted(p, ev) THEN Result(p, ErrCommitted)
            ELSE IF ~ok /\ ~verify(p, ev) THEN Result(p, ErrVerify)
            ELSE LET p1 == IF ok THEN p ELSE addPendingEvidence(p, ev)
                 IN IF duplicateInList(evList, idx) THEN Result(p1, ErrDuplicate)
                    ELSE checkFrom(p1, evList, idx + 1)

\* (a slip: what was stored before an item failed is taken back)
CheckEvidenceAllOrNothing(p, evList) ==
    LET r == checkFrom(p, evList, 1)
    IN IF r.ret = Ok THEN r ELSE Result(p, r.ret)

CheckEvidence(p, evList) == checkFrom(p, evList, 1)

\* (a slip: the error of the store is returned, as in AddEvidence)
RECURSIVE checkFromSetFailsFatal(_, _, _, _)
checkFromSetFailsFatal(p, evList, idx, failing) ==
    IF idx > Len(evList) THEN Result(p, Ok)
    ELSE LET ev == evList[idx]
             ok == fastCheck(p, ev)
         IN IF ~ok /\ isCommitted(p, ev) THEN Result(p, ErrCommitted)
            ELSE IF ~ok /\ ~verify(p, ev) THEN Result(p, ErrVerify)
            ELSE IF ~ok /\ idx \in failing THEN Result(p, ErrStorage)
            ELSE LET p1 == IF ok THEN p ELSE addPendingEvidence(p, ev)
                 IN IF duplicateInList(evList, idx) THEN Result(p1, ErrDuplicate)
                    ELSE checkFromSetFailsFatal(p1, evList, idx + 1, failing)

\* CheckEvidence when the write to the store fails for the items at the
\* indexes of failing: the error is logged and the loop goes on
RECURSIVE checkFromSetFails(_, _, _, _)
checkFromSetFails(p, evList, idx, failing) ==
    IF idx > Len(evList) THEN Result(p, Ok)
    ELSE LET ev == evList[idx]
             ok == fastCheck(p, ev)
         IN IF ~ok /\ isCommitted(p, ev) THEN Result(p, ErrCommitted)
            ELSE IF ~ok /\ ~verify(p, ev) THEN Result(p, ErrVerify)
            ELSE LET p1 == IF ok THEN p
                           ELSE IF idx \in failing THEN addPendingEvidenceSetFails(p, ev)
                           ELSE addPendingEvidence(p, ev)
                 IN IF duplicateInList(evList, idx) THEN Result(p1, ErrDuplicate)
                    ELSE checkFromSetFails(p1, evList, idx + 1, failing)

CheckEvidenceSetFails(p, evList, failing) == checkFromSetFails(p, evList, 1, failing)

(***************************************************************************)
(* Update and its steps                                                    *)
(***************************************************************************)
\* the evidence one buffered pair of votes makes, and whether it can be made
votesTooHigh(voteSet, st) == voteSet.VoteA.Height > st.LastBlockHeight

\* (a slip: the time and the validators of the state for votes of any height)
formDuplicateVoteEvidenceOfState(voteSet, st) ==
    NewDuplicateVoteEvidence(voteSet.VoteA.Height, st.LastBlockTime, st.LastValidators)

formDuplicateVoteEvidence(voteSet, st) ==
    IF voteSet.VoteA.Height = st.LastBlockHeight
    THEN NewDuplicateVoteEvidence(voteSet.VoteA.Height, st.LastBlockTime,
                                  st.LastValidators)
    ELSE NewDuplicateVoteEvidence(voteSet.VoteA.Height,
                                  LoadBlockMeta(voteSet.VoteA.Height),
                                  LoadValidators(voteSet.VoteA.Height))

\* the pair is skipped: votes above the state, or no validators, or no block
voteSetSkipped(voteSet, st) ==
    \/ votesTooHigh(voteSet, st)
    \/ /\ voteSet.VoteA.Height < st.LastBlockHeight
       /\ \/ LoadValidatorsFails(voteSet.VoteA.Height)
          \/ LoadBlockMeta(voteSet.VoteA.Height) = NoBlock

\* (a slip: no check that the evidence is pending)
RECURSIVE processVoteSetsUncheckedPending(_, _, _)
processVoteSetsUncheckedPending(p, st, buffer) ==
    IF buffer = <<>> THEN p
    ELSE LET voteSet == Head(buffer)
             dve == formDuplicateVoteEvidence(voteSet, st)
             p1 == IF voteSetSkipped(voteSet, st) THEN p
                   ELSE IF isCommitted(p, dve) THEN p
                   ELSE PushBack(addPendingEvidence(p, dve), dve)
         IN processVoteSetsUncheckedPending(p1, st, Tail(buffer))

\* the loop of processConsensusBuffer over what is left of the buffer
RECURSIVE processVoteSets(_, _, _)
processVoteSets(p, st, buffer) ==
    IF buffer = <<>> THEN p
    ELSE LET voteSet == Head(buffer)
             dve == formDuplicateVoteEvidence(voteSet, st)
             p1 == IF voteSetSkipped(voteSet, st) THEN p
                   ELSE IF isPending(p, dve) THEN p
                   ELSE IF isCommitted(p, dve) THEN p
                   ELSE PushBack(addPendingEvidence(p, dve), dve)
         IN processVoteSets(p1, st, Tail(buffer))

\* (a slip: the pairs that were skipped stay in the buffer for the next Update)
processConsensusBufferRetrying(p, st) ==
    [processVoteSets(p, st, p.consensusBuffer) EXCEPT
        !.consensusBuffer = SelectSeq(p.consensusBuffer,
                                      LAMBDA voteSet : voteSetSkipped(voteSet, st))]

processConsensusBuffer(p, st) ==
    [processVoteSets(p, st, p.consensusBuffer) EXCEPT !.consensusBuffer = <<>>]

\* (a slip: the state is not stored)
updateStateSkipped(p, st) == p

updateState(p, st) == [p EXCEPT !.state = st]

\* (a slip: only the evidence that was pending gets its committed marker)
markEvidenceAsCommittedIfPending(p, evidence, height) ==
    LET wasPending == {i \in 1 .. Len(evidence) : isPending(p, evidence[i])}
        blockEvidenceMap == {Hash(evidence[i]) : i \in wasPending}
        batch == {Key(evidence[i]) : i \in wasPending}
        p1 == [p EXCEPT !.committed =
                   {c \in p.committed : c.key \notin batch}
                   \cup {[key |-> k, height |-> height] : k \in batch}]
    IN IF blockEvidenceMap = {} THEN p1
       ELSE [p1 EXCEPT
                !.pending = {e \in p.pending : Key(e) \notin batch},
                !.evidenceList = removeEvidenceFromList(p.evidenceList, blockEvidenceMap),
                !.evidenceSize =
                    SubtractSize(p.evidenceSize, Cardinality(blockEvidenceMap))]

\* (a slip: the marker holds the height of the evidence)
markEvidenceAsCommittedAtItsHeight(p, evidence, height) ==
    LET wasPending == {i \in 1 .. Len(evidence) : isPending(p, evidence[i])}
        blockEvidenceMap == {Hash(evidence[i]) : i \in wasPending}
        batch == {Key(evidence[i]) : i \in wasPending}
        keys == {Key(evidence[i]) : i \in 1 .. Len(evidence)}
        p1 == [p EXCEPT !.committed =
                   {c \in p.committed : c.key \notin keys}
                   \cup {[key |-> k, height |-> k[1]] : k \in keys}]
    IN IF blockEvidenceMap = {} THEN p1
       ELSE [p1 EXCEPT
                !.pending = {e \in p.pending : Key(e) \notin batch},
                !.evidenceList = removeEvidenceFromList(p.evidenceList, blockEvidenceMap),
                !.evidenceSize =
                    SubtractSize(p.evidenceSize, Cardinality(blockEvidenceMap))]

markEvidenceAsCommitted(p, evidence, height) ==
    LET wasPending == {i \in 1 .. Len(evidence) : isPending(p, evidence[i])}
        blockEvidenceMap == {Hash(evidence[i]) : i \in wasPending}
        batch == {Key(evidence[i]) : i \in wasPending}
        keys == {Key(evidence[i]) : i \in 1 .. Len(evidence)}
        p1 == [p EXCEPT !.committed =
                   {c \in p.committed : c.key \notin keys}
                   \cup {[key |-> k, height |-> height] : k \in keys}]
    IN IF blockEvidenceMap = {} THEN p1
       ELSE [p1 EXCEPT
                !.pending = {e \in p.pending : Key(e) \notin batch},
                !.evidenceList = removeEvidenceFromList(p.evidenceList, blockEvidenceMap),
                !.evidenceSize =
                    SubtractSize(p.evidenceSize, Cardinality(blockEvidenceMap))]

\* (a slip: the cursor is the last height and time at which the evidence is
\* not expired yet)
RECURSIVE scanExpiredAtWindow(_, _, _)
scanExpiredAtWindow(p, iter, batch) ==
    IF iter = <<>>
    THEN [height |-> p.state.LastBlockHeight, time |-> p.state.LastBlockTime,
          batch |-> batch]
    ELSE LET ev == Head(iter)
         IN IF ~isExpired(p, ev.Height, ev.Time)
            THEN [height |-> ev.Height + p.state.MaxAgeNumBlocks,
                  time |-> ev.Time + p.state.MaxAgeDuration,
                  batch |-> batch]
            ELSE scanExpiredAtWindow(p, Tail(iter), batch \cup {ev})

\* the scan of the pending evidence in key order: the expired evidence before
\* the first that is not, and the height and time to prune at next
RECURSIVE scanExpired(_, _, _)
scanExpired(p, iter, batch) ==
    IF iter = <<>>
    THEN [height |-> p.state.LastBlockHeight, time |-> p.state.LastBlockTime,
          batch |-> batch]
    ELSE LET ev == Head(iter)
         IN IF ~isExpired(p, ev.Height, ev.Time)
            THEN [height |-> ev.Height + p.state.MaxAgeNumBlocks + 1,
                  time |-> ev.Time + p.state.MaxAgeDuration + 1,
                  batch |-> batch]
            ELSE scanExpired(p, Tail(iter), batch \cup {ev})

batchExpiredPendingEvidence(p) == scanExpired(p, IteratePrefix(p.pending), {})

\* (a slip: the markers of committed evidence that is expired by its height
\* are removed with the expired pending evidence)
removeExpiredPendingEvidenceAndMarkers(p) ==
    LET scan == batchExpiredPendingEvidence(p)
        blockEvidenceMap == {Hash(ev) : ev \in scan.batch}
        p1 == [p EXCEPT !.pruningHeight = scan.height, !.pruningTime = scan.time,
                        !.committed = {c \in p.committed :
                            p.state.LastBlockHeight - c.key[1] <= p.state.MaxAgeNumBlocks}]
    IN IF blockEvidenceMap = {} THEN p1
       ELSE [p1 EXCEPT
                !.pending = p.pending \ scan.batch,
                !.evidenceList = removeEvidenceFromList(p.evidenceList, blockEvidenceMap),
                !.evidenceSize =
                    SubtractSize(p.evidenceSize, Cardinality(blockEvidenceMap))]

\* the pool with the expired evidence removed and the cursor it returns set
removeExpiredPendingEvidence(p) ==
    LET scan == batchExpiredPendingEvidence(p)
        blockEvidenceMap == {Hash(ev) : ev \in scan.batch}
        p1 == [p EXCEPT !.pruningHeight = scan.height, !.pruningTime = scan.time]
    IN IF blockEvidenceMap = {} THEN p1
       ELSE [p1 EXCEPT
                !.pending = p.pending \ scan.batch,
                !.evidenceList = removeEvidenceFromList(p.evidenceList, blockEvidenceMap),
                !.evidenceSize =
                    SubtractSize(p.evidenceSize, Cardinality(blockEvidenceMap))]

\* (a slip: < for <=)
heightDecreasing(p, st) == st.LastBlockHeight < p.state.LastBlockHeight

\* the sanity check of Update
heightNotIncreasing(p, st) == st.LastBlockHeight <= p.state.LastBlockHeight

\* (a slip: an empty pool is pruned as well)
pruneDueWhenEmpty(p, st) ==
    /\ st.LastBlockHeight > p.pruningHeight
    /\ st.LastBlockTime > p.pruningTime

\* the condition under which Update prunes
pruneDue(p, st) ==
    /\ p.evidenceSize # Uint32(0)
    /\ st.LastBlockHeight > p.pruningHeight
    /\ st.LastBlockTime > p.pruningTime

Update(p, st, ev) ==
    IF heightNotIncreasing(p, st) THEN Result(p, Panic)
    ELSE LET p1 == processConsensusBuffer(p, st)
             p2 == updateState(p1, st)
             p3 == markEvidenceAsCommitted(p2, ev, st.LastBlockHeight)
         IN Result(IF pruneDue(p3, st) THEN removeExpiredPendingEvidence(p3) ELSE p3, Ok)

(***************************************************************************)
(* Update when deletes of the batch or its WriteSync fail.  failedDeletes  *)
(* are the keys whose batch.Delete fails; a failed WriteSync writes        *)
(* nothing.  The committed markers are written one by one, outside the     *)
(* batch.                                                                  *)
(***************************************************************************)
markEvidenceAsCommittedStoreErrors(p, evidence, height, failedDeletes, writeSyncFails) ==
    LET wasPending == {i \in 1 .. Len(evidence) : isPending(p, evidence[i])}
        blockEvidenceMap == {Hash(evidence[i]) : i \in wasPending}
        batch == {Key(evidence[i]) : i \in wasPending} \ failedDeletes
        keys == {Key(evidence[i]) : i \in 1 .. Len(evidence)}
        p1 == [p EXCEPT !.committed =
                   {c \in p.committed : c.key \notin keys}
                   \cup {[key |-> k, height |-> height] : k \in keys}]
    IN IF blockEvidenceMap = {} THEN p1
       ELSE IF writeSyncFails THEN p1
       ELSE [p1 EXCEPT
                !.pending = {e \in p.pending : Key(e) \notin batch},
                !.evidenceList = removeEvidenceFromList(p.evidenceList, blockEvidenceMap),
                !.evidenceSize =
                    SubtractSize(p.evidenceSize, Cardinality(blockEvidenceMap))]

RECURSIVE scanExpiredStoreErrors(_, _, _, _)
scanExpiredStoreErrors(p, iter, batch, failedDeletes) ==
    IF iter = <<>>
    THEN [height |-> p.state.LastBlockHeight, time |-> p.state.LastBlockTime,
          batch |-> batch]
    ELSE LET ev == Head(iter)
         IN IF ~isExpired(p, ev.Height, ev.Time)
            THEN [height |-> ev.Height + p.state.MaxAgeNumBlocks + 1,
                  time |-> ev.Time + p.state.MaxAgeDuration + 1,
                  batch |-> batch]
            ELSE IF Key(ev) \in failedDeletes
            THEN scanExpiredStoreErrors(p, Tail(iter), batch, failedDeletes)
            ELSE scanExpiredStoreErrors(p, Tail(iter), batch \cup {ev}, failedDeletes)

removeExpiredPendingEvidenceStoreErrors(p, failedDeletes, writeSyncFails) ==
    LET scan == scanExpiredStoreErrors(p, IteratePrefix(p.pending), {}, failedDeletes)
        blockEvidenceMap == {Hash(ev) : ev \in scan.batch}
        p1 == [p EXCEPT !.pruningHeight = scan.height, !.pruningTime = scan.time]
    IN IF blockEvidenceMap = {} THEN p1
       ELSE IF writeSyncFails
       THEN [p EXCEPT !.pruningHeight = p.state.LastBlockHeight,
                      !.pruningTime = p.state.LastBlockTime]
       ELSE [p1 EXCEPT
                !.pending = p.pending \ scan.batch,
                !.evidenceList = removeEvidenceFromList(p.evidenceList, blockEvidenceMap),
                !.evidenceSize =
                    SubtractSize(p.evidenceSize, Cardinality(blockEvidenceMap))]

\* errs: the deletes that fail and whether WriteSync fails, in
\* markEvidenceAsCommitted and in the prune
UpdateStoreErrors(p, st, ev, errs) ==
    IF heightNotIncreasing(p, st) THEN Result(p, Panic)
    ELSE LET p1 == processConsensusBuffer(p, st)
             p2 == updateState(p1, st)
             p3 == markEvidenceAsCommittedStoreErrors(p2, ev, st.LastBlockHeight,
                       errs.markDeletes, errs.markWriteSync)
         IN Result(IF pruneDue(p3, st)
                   THEN removeExpiredPendingEvidenceStoreErrors(p3, errs.pruneDeletes,
                                                                errs.pruneWriteSync)
                   ELSE p3, Ok)

(***************************************************************************)
(* PendingEvidence and listEvidence.  The size of evidence in bytes is the *)
(* size of its serialized form, and the size of a list the sum of the      *)
(* sizes of its items.                                                     *)
(***************************************************************************)
ProtoSize(ev) == IF ev.type = "lca" THEN 1 + Len(ev.ByzantineValidators) ELSE 2

RECURSIVE EvidenceListSize(_)
EvidenceListSize(evList) ==
    IF evList = <<>> THEN 0
    ELSE ProtoSize(Head(evList)) + EvidenceListSize(Tail(evList))

NoCap == -1

\* (a slip: evidence that does not fit is passed over and the scan goes on)
RECURSIVE listFromSkipping(_, _, _, _)
listFromSkipping(iter, maxBytes, evidence, totalSize) ==
    IF iter = <<>> THEN [evidence |-> evidence, size |-> totalSize]
    ELSE LET evSize == EvidenceListSize(Append(evidence, Head(iter)))
         IN IF maxBytes # NoCap /\ evSize > maxBytes
            THEN listFromSkipping(Tail(iter), maxBytes, evidence, totalSize)
            ELSE listFromSkipping(Tail(iter), maxBytes, Append(evidence, Head(iter)), evSize)

\* the loop of listEvidence over what is left of the iterator
RECURSIVE listFrom(_, _, _, _)
listFrom(iter, maxBytes, evidence, totalSize) ==
    IF iter = <<>> THEN [evidence |-> evidence, size |-> totalSize]
    ELSE LET evSize == EvidenceListSize(Append(evidence, Head(iter)))
         IN IF maxBytes # NoCap /\ evSize > maxBytes
            THEN [evidence |-> evidence, size |-> totalSize]
            ELSE listFrom(Tail(iter), maxBytes, Append(evidence, Head(iter)), evSize)

\* listEvidence of the pending prefix
listEvidence(p, maxBytes) == listFrom(IteratePrefix(p.pending), maxBytes, <<>>, 0)

PendingEvidence(p, maxBytes) ==
    IF p.evidenceSize = Uint32(0) THEN [evidence |-> <<>>, size |-> 0]
    ELSE listEvidence(p, maxBytes)

(***************************************************************************)
(* NewPool: on the evidence store as it is and the state of the state      *)
(* store                                                                   *)
(***************************************************************************)
\* (a slip: the store is not scanned for expired evidence)
NewPoolUnpruned(stored, marked, st) ==
    LET p0 == [pending |-> stored, committed |-> marked, evidenceList |-> <<>>,
               evidenceSize |-> Uint32(0), state |-> st, consensusBuffer |-> <<>>,
               pruningHeight |-> st.LastBlockHeight, pruningTime |-> st.LastBlockTime]
        evList == IteratePrefix(p0.pending)
    IN [p0 EXCEPT !.evidenceSize = Uint32(Len(evList)), !.evidenceList = evList]

NewPool(stored, marked, st) ==
    LET p0 == [pending |-> stored, committed |-> marked, evidenceList |-> <<>>,
               evidenceSize |-> Uint32(0), state |-> st, consensusBuffer |-> <<>>,
               pruningHeight |-> 0, pruningTime |-> 0]
        p1 == removeExpiredPendingEvidence(p0)
        evList == IteratePrefix(p1.pending)
    IN [p1 EXCEPT !.evidenceSize = Uint32(Len(evList)), !.evidenceList = evList]

(***************************************************************************)
(* The state machine                                                       *)
(***************************************************************************)
(***************************************************************************)
(* The evidence peers and proposers can send: for each height the          *)
(* duplicate vote evidence with the header time the block store has for it *)
(* (none: a height the chain has not reached), and one light client attack *)
(* at the first height with each list of byzantine validators.             *)
(***************************************************************************)
EvHeights == {InitHeight + 1}
ByzLists == {<<ValA>>, <<ValA, ValB>>}

DuplicateVotes ==
    {NewDuplicateVoteEvidence(h, LoadBlockMeta(h), ValidatorsAt(h)) : h \in EvHeights}
LightClientAttacks ==
    {LightClientAttackEvidence(1, InitHeight, InitTime, b) : b \in ByzLists}
Evidence == DuplicateVotes \cup LightClientAttacks
\* evidence a peer can send that verify refuses whatever the state: a light
\* client attack whose byzantine validators are not sorted, and duplicate votes
\* with another validator set than the one of their height
InvalidEvidence ==
    {LightClientAttackEvidence(1, InitHeight, InitTime, <<ValB, ValA>>)}
    \cup {NewDuplicateVoteEvidence(h, LoadBlockMeta(h), ValidatorsAt(h) + 1) : h \in EvHeights}
PeerEvidence == Evidence \cup InvalidEvidence
EvidenceLists == SeqsUpTo(Evidence, MaxEvList)

\* the evidence lists of committed blocks: the evidence of a block matches the
\* history of the chain below it and no two items of it have one hash; the
\* lists are taken in key order
InBlock(ev, st) ==
    /\ ev.Height < st.LastBlockHeight
    /\ LoadBlockMeta(ev.Height) # NoBlock
    /\ ev.Time = LoadBlockMeta(ev.Height)
    /\ ev.type = "lca" => SortValidators(ev.ByzantineValidators) = ev.ByzantineValidators
BlockEvidenceLists(st) ==
    {IteratePrefix(block) : block \in
        {b \in SUBSET {ev \in Evidence : InBlock(ev, st)} :
            \A e1, e2 \in b : Hash(e1) = Hash(e2) => e1 = e2}}

SetPool(p) ==
    /\ pending' = p.pending
    /\ committed' = p.committed
    /\ evidenceList' = p.evidenceList
    /\ evidenceSize' = p.evidenceSize
    /\ state' = p.state
    /\ consensusBuffer' = p.consensusBuffer
    /\ pruningHeight' = p.pruningHeight
    /\ pruningTime' = p.pruningTime

\* the threads that call AddEvidence (gossip and RPC), and a thread in no call
Threads == {1, 2}
NoCall == [pc |-> "idle", ev |-> LightClientAttackEvidence(0, 0, 0, <<>>),
           before |-> NewPool({}, {}, State(InitHeight, InitTime)), ret |-> Ok]

\* the mutex when no thread holds it
Free == "free"

\* no Update in progress
NoUpdate == [pc |-> "idle", st |-> State(InitHeight, InitTime), ev |-> <<>>,
             before |-> NewPool({}, {}, State(InitHeight, InitTime))]

Init ==
    /\ blockStore = [h \in 1 .. MaxHeight |-> IF h = InitHeight THEN InitTime ELSE NoBlock]
    /\ calls = [t \in Threads |-> NoCall]
    /\ updating = NoUpdate
    /\ mtx = Free
    /\ gossip = "iterating"
    /\ LET p == NewPool({}, {}, State(InitHeight, InitTime))
       IN /\ pending = p.pending
          /\ committed = p.committed
          /\ evidenceList = p.evidenceList
          /\ evidenceSize = p.evidenceSize
          /\ state = p.state
          /\ consensusBuffer = p.consensusBuffer
          /\ pruningHeight = p.pruningHeight
          /\ pruningTime = p.pruningTime

CallAddEvidence(ev) ==
    LET r == AddEvidence(Pool, ev)
    IN /\ SetPool(r.pool)
       /\ UNCHANGED <<blockStore, calls, updating, mtx, gossip>>

CallAddEvidenceSetFails(ev) ==
    /\ SetPool(AddEvidenceSetFails(Pool, ev).pool)
    /\ UNCHANGED <<blockStore, calls, updating, mtx, gossip>>

CallReportConflictingVotes(voteSet) ==
    /\ Len(consensusBuffer) < MaxBuffer
    /\ SetPool(ReportConflictingVotes(Pool, voteSet))
    /\ UNCHANGED <<blockStore, calls, updating, mtx, gossip>>

CallCheckEvidence(evList) ==
    LET r == CheckEvidence(Pool, evList)
    IN /\ r.pool.evidenceSize[1] = 0 /\ r.pool.evidenceSize[2] <= MaxSize
       /\ SetPool(r.pool)
       /\ UNCHANGED <<blockStore, calls, updating, mtx, gossip>>

\* the states the block executor hands to Update: block time grows with height
Newer(st) ==
    /\ st.LastBlockHeight > state.LastBlockHeight =>
           /\ st.LastBlockHeight <= state.LastBlockHeight + 2
           /\ st.LastBlockTime > state.LastBlockTime
           /\ st.LastBlockTime <= state.LastBlockTime + 2
    /\ st.LastBlockHeight = state.LastBlockHeight => st.LastBlockTime = state.LastBlockTime
    /\ st.LastBlockHeight < state.LastBlockHeight => st.LastBlockTime < state.LastBlockTime

CallUpdate(st, evList) ==
    LET r == Update(Pool, st, evList)
    IN /\ SetPool(r.pool)
       /\ blockStore' = IF r.ret = Panic THEN blockStore
                        ELSE [blockStore EXCEPT ![st.LastBlockHeight] = st.LastBlockTime]
       /\ UNCHANGED <<calls, updating, mtx, gossip>>

\* the store errors an Update of this block can meet: at most one delete
\* fails in each batch, of evidence of the block or of pending evidence
StoreErrors(evList) ==
    [markDeletes : {{}} \cup {{Key(evList[i])} : i \in 1 .. Len(evList)},
     markWriteSync : BOOLEAN,
     pruneDeletes : {{}} \cup {{Key(e)} : e \in pending},
     pruneWriteSync : BOOLEAN]

CallUpdateStoreErrors(st, evList, errs) ==
    LET r == UpdateStoreErrors(Pool, st, evList, errs)
    IN /\ SetPool(r.pool)
       /\ blockStore' = IF r.ret = Panic THEN blockStore
                        ELSE [blockStore EXCEPT ![st.LastBlockHeight] = st.LastBlockTime]
       /\ UNCHANGED <<calls, updating, mtx, gossip>>

\* PendingEvidence reads the pool; what it returns goes to the proposer
CallPendingEvidence(maxBytes) ==
    /\ PendingEvidence(Pool, maxBytes).size <= EvidenceListSize(IteratePrefix(pending))
    /\ UNCHANGED vars

\* the node restarts: a new pool on the evidence store and the last state
CallNewPool ==
    /\ SetPool(NewPool(pending, committed, state))
    /\ UNCHANGED <<blockStore, calls, updating, mtx, gossip>>

States == {State(h, t) : h \in 1 .. MaxHeight, t \in 1 .. MaxTime}

Next ==
    \/ \E ev \in PeerEvidence : CallAddEvidence(ev)
    \/ \E ev \in PeerEvidence : CallAddEvidenceSetFails(ev)
    \/ \E voteSet \in VoteSets : CallReportConflictingVotes(voteSet)
    \/ \E evList \in EvidenceLists : CallCheckEvidence(evList)
    \/ \E st \in {s \in States : Newer(s)} :
           \E evList \in BlockEvidenceLists(st) : CallUpdate(st, evList)
    \/ CallNewPool
    \/ \E maxBytes \in NoCap .. MaxBytes : CallPendingEvidence(maxBytes)

Spec == Init /\ [][Next]_vars

\* the pool on a store whose batches can fail
NextStoreErrors ==
    \/ Next
    \/ \E st \in {s \in States : Newer(s)} : \E evList \in BlockEvidenceLists(st) :
           \E errs \in StoreErrors(evList) : CallUpdateStoreErrors(st, evList, errs)

SpecStoreErrors == Init /\ [][NextStoreErrors]_vars

(***************************************************************************)
(* The gossip loop.  With nothing to send it receives from the channel of  *)
(* EvidenceWaitChan: it waits while the channel it got is open, and it is  *)
(* woken when that channel is closed, which stays closed.  The channel is  *)
(* closed by the PushBack that makes the list non-empty.                   *)
(***************************************************************************)
\* the loop after the list has become list
closeWaitChan(loop, p) ==
    IF loop = "waiting" /\ EvidenceWaitChan(p) = "closed" THEN "woken" ELSE loop

\* the loop calls EvidenceWaitChan and receives from the channel
GossipWait ==
    /\ gossip = "iterating"
    /\ gossip' = IF EvidenceWaitChan(Pool) = "closed" THEN "woken" ELSE "waiting"
    /\ UNCHANGED <<poolVars, blockStore, calls, updating, mtx>>

\* the receive returns: the loop goes on with EvidenceFront
GossipProceed ==
    /\ gossip = "woken"
    /\ gossip' = "iterating"
    /\ UNCHANGED <<poolVars, blockStore, calls, updating, mtx>>

GossipAddEvidence(ev) ==
    LET r == AddEvidence(Pool, ev)
    IN /\ SetPool(r.pool)
       /\ gossip' = closeWaitChan(gossip, r.pool)
       /\ UNCHANGED <<blockStore, calls, updating, mtx>>

\* processConsensusBuffer puts evidence on the list, markEvidenceAsCommitted
\* and the prune take evidence from it
GossipUpdate(st, evList) ==
    LET r == Update(Pool, st, evList)
    IN /\ SetPool(r.pool)
       /\ blockStore' = IF r.ret = Panic THEN blockStore
                        ELSE [blockStore EXCEPT ![st.LastBlockHeight] = st.LastBlockTime]
       /\ gossip' = IF r.ret = Panic THEN gossip
                    ELSE closeWaitChan(gossip, processConsensusBuffer(Pool, st))
       /\ UNCHANGED <<calls, updating, mtx>>

NextGossip ==
    \/ \E ev \in PeerEvidence : GossipAddEvidence(ev)
    \/ \E voteSet \in VoteSets : CallReportConflictingVotes(voteSet)
    \/ \E st \in {s \in States : Newer(s)} :
           \E evList \in BlockEvidenceLists(st) : GossipUpdate(st, evList)
    \/ GossipWait
    \/ GossipProceed

\* a receive from a closed channel returns: the loop that was woken runs
SpecGossip == Init /\ [][NextGossip]_vars /\ WF_vars(GossipProceed)

(***************************************************************************)
(* AddEvidence called from several threads.  AddEvidence takes no lock:    *)
(* the store, the list and the size counter are each safe for concurrent   *)
(* use, and a thread can be preempted between any two of its accesses to   *)
(* them.  A step is one access; calls[t].before is the pool when the first *)
(* of the calls that run together began.  Update runs between the calls.   *)
(***************************************************************************)
InCall(t) == calls[t].pc \notin {"idle", "returned"}

Goto(t, pc) == calls' = [calls EXCEPT ![t].pc = pc]
Return(t, ret) == calls' = [calls EXCEPT ![t].pc = "returned", ![t].ret = ret]

BeginAddEvidence(t, ev) ==
    /\ calls[t].pc = "idle"
    /\ calls' = [calls EXCEPT ![t] =
           [pc |-> "isPending", ev |-> ev, ret |-> Ok,
            before |-> IF \E o \in Threads : calls[o].pc # "idle"
                       THEN calls[CHOOSE o \in Threads : calls[o].pc # "idle"].before
                       ELSE Pool]]
    /\ UNCHANGED <<poolVars, blockStore, updating, mtx, gossip>>

StepIsPending(t) ==
    /\ calls[t].pc = "isPending"
    /\ IF isPending(Pool, calls[t].ev) THEN Return(t, Ok) ELSE Goto(t, "isCommitted")
    /\ UNCHANGED <<poolVars, blockStore, updating, mtx, gossip>>

StepIsCommitted(t) ==
    /\ calls[t].pc = "isCommitted"
    /\ IF isCommitted(Pool, calls[t].ev) THEN Return(t, Ok) ELSE Goto(t, "verify")
    /\ UNCHANGED <<poolVars, blockStore, updating, mtx, gossip>>

StepVerify(t) ==
    /\ calls[t].pc = "verify"
    /\ IF ~verify(Pool, calls[t].ev) THEN Return(t, ErrVerify) ELSE Goto(t, "Set")
    /\ UNCHANGED <<poolVars, blockStore, updating, mtx, gossip>>

\* addPendingEvidence: evidenceStore.Set, then atomic.AddUint32
StepSet(t) ==
    /\ calls[t].pc = "Set"
    /\ pending' = StoreSet(pending, calls[t].ev)
    /\ Goto(t, "AddUint32")
    /\ UNCHANGED <<committed, evidenceList, evidenceSize, state, consensusBuffer,
                   pruningHeight, pruningTime, blockStore, updating, mtx, gossip>>

StepAddUint32(t) ==
    /\ calls[t].pc = "AddUint32"
    /\ evidenceSize' = Uint32Add(evidenceSize, Uint32(1))
    /\ Goto(t, "PushBack")
    /\ UNCHANGED <<pending, committed, evidenceList, state, consensusBuffer,
                   pruningHeight, pruningTime, blockStore, updating, mtx, gossip>>

StepPushBack(t) ==
    /\ calls[t].pc = "PushBack"
    /\ evidenceList' = PushBack(Pool, calls[t].ev).evidenceList
    /\ Return(t, Ok)
    /\ UNCHANGED <<pending, committed, evidenceSize, state, consensusBuffer,
                   pruningHeight, pruningTime, blockStore, updating, mtx, gossip>>

\* the calls have returned; the threads are free for the next ones
Rest ==
    /\ \A t \in Threads : ~InCall(t)
    /\ \E t \in Threads : calls[t].pc = "returned"
    /\ calls' = [t \in Threads |-> NoCall]
    /\ UNCHANGED <<poolVars, blockStore, updating, mtx, gossip>>

UpdateBetweenCalls(st, evList) ==
    /\ \A t \in Threads : calls[t].pc = "idle"
    /\ CallUpdate(st, evList)

NextConcurrent ==
    \/ \E t \in Threads : \E ev \in Evidence : BeginAddEvidence(t, ev)
    \/ \E t \in Threads : StepIsPending(t)
    \/ \E t \in Threads : StepIsCommitted(t)
    \/ \E t \in Threads : StepVerify(t)
    \/ \E t \in Threads : StepSet(t)
    \/ \E t \in Threads : StepAddUint32(t)
    \/ \E t \in Threads : StepPushBack(t)
    \/ Rest
    \/ \E st \in {s \in States : Newer(s)} :
           \E evList \in BlockEvidenceLists(st) : UpdateBetweenCalls(st, evList)

SpecConcurrent == Init /\ [][NextConcurrent]_vars

(***************************************************************************)
(* Update, step by step: each call it makes is one step, taken when the    *)
(* call before it has returned.  updating.before is the pool Update was    *)
(* called on.  The other operations run between the Updates.               *)
(***************************************************************************)
\* (a slip: the prune comes before the evidence of the block is marked)
stepAfterPruningFirst(pc) ==
    CASE pc = "processConsensusBuffer" -> "updateState"
      [] pc = "updateState" -> "removeExpiredPendingEvidence"
      [] pc = "removeExpiredPendingEvidence" -> "markEvidenceAsCommitted"
      [] pc = "markEvidenceAsCommitted" -> "returned"

\* the call of Update that follows a call
stepAfter(pc) ==
    CASE pc = "processConsensusBuffer" -> "updateState"
      [] pc = "updateState" -> "markEvidenceAsCommitted"
      [] pc = "markEvidenceAsCommitted" -> "removeExpiredPendingEvidence"
      [] pc = "removeExpiredPendingEvidence" -> "returned"

Step(pc) ==
    /\ updating.pc = pc
    /\ updating' = [updating EXCEPT !.pc = stepAfter(pc)]
    /\ UNCHANGED <<blockStore, calls, mtx, gossip>>

BeginUpdate(st, evList) ==
    /\ updating.pc = "idle"
    /\ updating' = [pc |-> IF heightNotIncreasing(Pool, st) THEN "panic"
                           ELSE "processConsensusBuffer",
                    st |-> st, ev |-> evList, before |-> Pool]
    /\ UNCHANGED <<poolVars, blockStore, calls, mtx, gossip>>

StepProcessConsensusBuffer ==
    /\ Step("processConsensusBuffer")
    /\ SetPool(processConsensusBuffer(Pool, updating.st))

StepUpdateState ==
    /\ Step("updateState")
    /\ SetPool(updateState(Pool, updating.st))

StepMarkEvidenceAsCommitted ==
    /\ Step("markEvidenceAsCommitted")
    /\ SetPool(markEvidenceAsCommitted(Pool, updating.ev, updating.st.LastBlockHeight))

StepPrune ==
    /\ Step("removeExpiredPendingEvidence")
    /\ SetPool(IF pruneDue(Pool, updating.st) THEN removeExpiredPendingEvidence(Pool)
               ELSE Pool)

\* Update has returned or panicked; the block of a state that was taken is
\* in the block store
EndUpdate ==
    /\ updating.pc \in {"returned", "panic"}
    /\ updating' = NoUpdate
    /\ blockStore' = IF updating.pc = "panic" THEN blockStore
                     ELSE [blockStore EXCEPT ![updating.st.LastBlockHeight] =
                                                 updating.st.LastBlockTime]
    /\ UNCHANGED <<poolVars, calls, mtx, gossip>>

BetweenUpdates(A) == updating.pc = "idle" /\ A

NextUpdateSteps ==
    \/ \E st \in {s \in States : Newer(s)} :
           \E evList \in BlockEvidenceLists(st) : BeginUpdate(st, evList)
    \/ StepProcessConsensusBuffer
    \/ StepUpdateState
    \/ StepMarkEvidenceAsCommitted
    \/ StepPrune
    \/ EndUpdate
    \/ \E ev \in Evidence : BetweenUpdates(CallAddEvidence(ev))
    \/ \E voteSet \in VoteSets : BetweenUpdates(CallReportConflictingVotes(voteSet))

SpecUpdateSteps == Init /\ [][NextUpdateSteps]_vars

(***************************************************************************)
(* Update running with the other threads.  The block executor calls Update *)
(* for one block at a time; the gossip thread calls AddEvidence, consensus *)
(* calls ReportConflictingVotes, and State and PendingEvidence are called  *)
(* from any thread.  ReportConflictingVotes, State, updateState and        *)
(* processConsensusBuffer take the mutex; the store, the list and the size *)
(* counter are accessed without it.  A step of Update is one call it makes *)
(* or, in processConsensusBuffer, the lock, the loop and the reset of the  *)
(* buffer with the deferred unlock.                                        *)
(***************************************************************************)
\* (a slip: the caller does not wait for the mutex)
canLockHeld(holder) == TRUE

\* sync.Mutex.Lock returns when no thread holds the mutex
canLock(holder) == holder = Free

\* (a slip: the mutex is not released)
UnlockSkipped(holder) == holder

\* sync.Mutex.Unlock
Unlock(holder) == Free

\* the gossip thread
Gossip == 1

GotoUpdate(pc) == updating' = [updating EXCEPT !.pc = pc]

BeginUpdateThread(st, evList) ==
    /\ updating.pc = "idle"
    /\ updating' = [NoUpdate EXCEPT
                       !.pc = IF heightNotIncreasing(Pool, st) THEN "panic"
                              ELSE "processConsensusBuffer",
                       !.st = st, !.ev = evList]
    /\ UNCHANGED <<poolVars, blockStore, calls, mtx, gossip>>

BeginAddEvidenceThread(ev) ==
    /\ calls[Gossip].pc = "idle"
    /\ calls' = [calls EXCEPT ![Gossip] = [NoCall EXCEPT !.pc = "isPending", !.ev = ev]]
    /\ UNCHANGED <<poolVars, blockStore, updating, mtx, gossip>>

\* processConsensusBuffer: evpool.mtx.Lock()
StepLock ==
    /\ updating.pc = "processConsensusBuffer"
    /\ canLock(mtx)
    /\ mtx' = "Update"
    /\ GotoUpdate("forVoteSets")
    /\ UNCHANGED <<poolVars, blockStore, calls, gossip>>

\* processConsensusBuffer: the loop over the buffer
StepVoteSets ==
    /\ updating.pc = "forVoteSets"
    /\ SetPool(processVoteSets(Pool, updating.st, consensusBuffer))
    /\ GotoUpdate("resetBuffer")
    /\ UNCHANGED <<blockStore, calls, mtx, gossip>>

\* processConsensusBuffer: the buffer is reset, the deferred Unlock runs
StepResetBuffer ==
    /\ updating.pc = "resetBuffer"
    /\ consensusBuffer' = <<>>
    /\ mtx' = Unlock(mtx)
    /\ GotoUpdate("updateState")
    /\ UNCHANGED <<pending, committed, evidenceList, evidenceSize, state,
                   pruningHeight, pruningTime, blockStore, calls, gossip>>

\* updateState locks, stores the state and unlocks
StepUpdateStateLocked ==
    /\ updating.pc = "updateState"
    /\ canLock(mtx)
    /\ SetPool(updateState(Pool, updating.st))
    /\ GotoUpdate("markEvidenceAsCommitted")
    /\ UNCHANGED <<blockStore, calls, mtx, gossip>>

StepMarkEvidenceAsCommittedThread ==
    /\ updating.pc = "markEvidenceAsCommitted"
    /\ SetPool(markEvidenceAsCommitted(Pool, updating.ev, updating.st.LastBlockHeight))
    /\ GotoUpdate("removeExpiredPendingEvidence")
    /\ UNCHANGED <<blockStore, calls, mtx, gossip>>

\* isExpired calls State, which locks, for each item the prune looks at
StepPruneLocked ==
    /\ updating.pc = "removeExpiredPendingEvidence"
    /\ pruneDue(Pool, updating.st) /\ pending # {} => canLock(mtx)
    /\ SetPool(IF pruneDue(Pool, updating.st) THEN removeExpiredPendingEvidence(Pool)
               ELSE Pool)
    /\ GotoUpdate("returned")
    /\ UNCHANGED <<blockStore, calls, mtx, gossip>>

\* the steps of the block executor inside Update
UpdateSteps ==
    \/ StepLock
    \/ StepVoteSets
    \/ StepResetBuffer
    \/ StepUpdateStateLocked
    \/ StepMarkEvidenceAsCommittedThread
    \/ StepPruneLocked

\* ReportConflictingVotes locks, appends and unlocks
ReportLocked(voteSet) == canLock(mtx) /\ CallReportConflictingVotes(voteSet)

\* State locks, reads and unlocks
CallState == canLock(mtx) /\ UNCHANGED vars

NextThreads ==
    \/ \E st \in {s \in States : Newer(s)} :
           \E evList \in BlockEvidenceLists(st) : BeginUpdateThread(st, evList)
    \/ StepLock
    \/ StepVoteSets
    \/ StepResetBuffer
    \/ StepUpdateStateLocked
    \/ StepMarkEvidenceAsCommittedThread
    \/ StepPruneLocked
    \/ EndUpdate
    \/ \E voteSet \in VoteSets : ReportLocked(voteSet)
    \/ CallState
    \/ \E maxBytes \in NoCap .. MaxBytes : CallPendingEvidence(maxBytes)
    \/ \E ev \in Evidence : CallAddEvidence(ev)

SpecThreads == Init /\ [][NextThreads]_vars

\* the threads at the mutex: the peers send duplicate vote evidence only,
\* which is the evidence processConsensusBuffer makes as well
NextMutex ==
    \/ \E st \in {s \in States : Newer(s)} :
           \E evList \in BlockEvidenceLists(st) : BeginUpdateThread(st, evList)
    \/ StepLock
    \/ StepVoteSets
    \/ StepResetBuffer
    \/ StepUpdateStateLocked
    \/ StepMarkEvidenceAsCommittedThread
    \/ StepPruneLocked
    \/ EndUpdate
    \/ \E voteSet \in VoteSets : ReportLocked(voteSet)
    \/ CallState
    \/ \E maxBytes \in NoCap .. MaxBytes : CallPendingEvidence(maxBytes)
    \/ \E ev \in DuplicateVotes : CallAddEvidence(ev)

\* the block executor, once in Update, keeps running: the scheduler runs a
\* thread that can run, and the store operations return
SpecMutex == Init /\ [][NextMutex]_vars /\ WF_vars(UpdateSteps)

\* AddEvidence on the gossip thread, access by access, with the steps of
\* Update on the block executor
NextRace ==
    \/ \E st \in {s \in States : Newer(s)} :
           \E evList \in BlockEvidenceLists(st) : BeginUpdateThread(st, evList)
    \/ StepLock
    \/ StepVoteSets
    \/ StepResetBuffer
    \/ StepUpdateStateLocked
    \/ StepMarkEvidenceAsCommittedThread
    \/ StepPruneLocked
    \/ EndUpdate
    \/ \E ev \in Evidence : BeginAddEvidenceThread(ev)
    \/ StepIsPending(Gossip)
    \/ StepIsCommitted(Gossip)
    \/ StepVerify(Gossip)
    \/ StepSet(Gossip)
    \/ StepAddUint32(Gossip)
    \/ StepPushBack(Gossip)
    \/ Rest

SpecRace == Init /\ [][NextRace]_vars

(***************************************************************************)
(* The pool of a validator that checks proposed blocks: the evidence of a  *)
(* proposed block is evidence of the chain, which the pool may hold as     *)
(* pending from its own consensus, and the store may fail to write.        *)
(***************************************************************************)
ProposedLists == SeqsUpTo(Evidence \cup pending, MaxEvList)
\* the lists a proposer makes: no two items of one hash, in key order
ProposedBlocks ==
    {IteratePrefix(block) : block \in
        {b \in SUBSET (Evidence \cup pending) :
            /\ Cardinality(b) <= MaxEvList
            /\ \A e1, e2 \in b : Hash(e1) = Hash(e2) => e1 = e2}}

\* the writes that fail in one call: one of them, or all of them
FailingWrites(evList) ==
    {{i} : i \in 1 .. Len(evList)} \cup {1 .. Len(evList)}

CallCheckEvidenceSetFails(evList, failing) ==
    LET r == CheckEvidenceSetFails(Pool, evList, failing)
    IN /\ r.pool.evidenceSize[1] = 0 /\ r.pool.evidenceSize[2] <= MaxSize
       /\ SetPool(r.pool)
       /\ UNCHANGED <<blockStore, calls, updating, mtx, gossip>>

NextCheck ==
    \/ \E voteSet \in VoteSets : CallReportConflictingVotes(voteSet)
    \/ \E st \in {s \in States : Newer(s)} :
           \E evList \in BlockEvidenceLists(st) : CallUpdate(st, evList)
    \/ \E evList \in ProposedBlocks : CallCheckEvidence(evList)
    \/ \E evList \in ProposedBlocks : \E failing \in FailingWrites(evList) :
           CallCheckEvidenceSetFails(evList, failing)

SpecCheck == Init /\ [][NextCheck]_vars

(***************************************************************************)
(* The node restarts on the store a run has left: evidence comes from the  *)
(* peers and in proposed blocks, blocks are committed, and NewPool is      *)
(* called on the evidence store and the state of the last block.           *)
(***************************************************************************)
NextStartup ==
    \/ \E ev \in PeerEvidence : CallAddEvidence(ev)
    \/ \E evList \in ProposedBlocks : CallCheckEvidence(evList)
    \/ \E st \in {s \in States : Newer(s)} :
           \E evList \in BlockEvidenceLists(st) : CallUpdate(st, evList)
    \/ CallNewPool

SpecStartup == Init /\ [][NextStartup]_vars

\* blocks are committed on a store whose deletes and batch writes can fail
NextDecrement ==
    \/ \E ev \in PeerEvidence : CallAddEvidence(ev)
    \/ \E evList \in ProposedBlocks : CallCheckEvidence(evList)
    \/ \E st \in {s \in States : Newer(s)} : \E evList \in BlockEvidenceLists(st) :
           \E errs \in StoreErrors(evList) : CallUpdateStoreErrors(st, evList, errs)

SpecDecrement == Init /\ [][NextDecrement]_vars

(***************************************************************************)
(* The pool with several light client attacks at one height, whose keys    *)
(* differ in the hash only: evidence is added in any order, blocks commit  *)
(* it, and the proposer reads it.                                          *)
(***************************************************************************)
\* the attack of an odd block has two byzantine validators, of an even block one
ByzantineValidatorsOf(block) == IF block % 2 = 1 THEN <<ValA, ValB>> ELSE <<ValA>>
AttacksAtOneHeight ==
    {LightClientAttackEvidence(b, InitHeight, InitTime, ByzantineValidatorsOf(b)) :
        b \in 1 .. MaxBlock}
ProposerEvidence == AttacksAtOneHeight \cup DuplicateVotes

BlockListsOf(evs, st) ==
    {IteratePrefix(block) :
        block \in {b \in SUBSET {ev \in evs : InBlock(ev, st)} :
                      \A e1, e2 \in b : Hash(e1) = Hash(e2) => e1 = e2}}

NextPending ==
    \/ \E ev \in ProposerEvidence : CallAddEvidence(ev)
    \/ \E st \in {s \in States : Newer(s)} :
           \E evList \in BlockListsOf(ProposerEvidence, st) : CallUpdate(st, evList)
    \/ \E maxBytes \in NoCap .. MaxBytes : CallPendingEvidence(maxBytes)

SpecPending == Init /\ [][NextPending]_vars

(***************************************************************************)
(* The properties of the pool.  A property of one call is stated of every  *)
(* call that can be made in a state the pool reaches: the operators above  *)
(* are applied to Pool, the pool as it is.                                 *)
(***************************************************************************)
\* the states Update can be called with, and the hashes a collection holds
NewStates == {s \in States : Newer(s)}
\* the states an Update that does not panic can be called with
HigherStates == {s \in NewStates : s.LastBlockHeight > state.LastBlockHeight}
PendingHashes == {Hash(e) : e \in pending}
CommittedHashes == {c.key[2] : c \in committed}
ListHashes == {Hash(evidenceList[i]) : i \in 1 .. Len(evidenceList)}

\* C1 (I1): no evidence hash is in the pending set and in the committed set,
\* after any sequence of NewPool, AddEvidence, CheckEvidence,
\* ReportConflictingVotes and Update.
Disjointness == PendingHashes \cap CommittedHashes = {}

\* evidence is pending, other evidence is committed, and the committed could
\* be sent again and verify
DisjointnessWitness ==
    /\ pending # {}
    /\ \E ev \in Evidence : isCommitted(Pool, ev) /\ verify(Pool, ev)

\* C2: after Update(state, evList) returns, every evidence of evList is not
\* pending and is committed, whether it was pending before, was never seen, or
\* is formed from the consensus buffer by this Update.
UpdateCommitsBlockEvidence ==
    \A st \in NewStates : \A evList \in BlockEvidenceLists(st) :
        LET r == Update(Pool, st, evList)
        IN r.ret = Ok =>
               \A i \in 1 .. Len(evList) :
                   ~isPending(r.pool, evList[i]) /\ isCommitted(r.pool, evList[i])

\* an Update is due whose block holds evidence that is pending and evidence
\* that is not, which this Update forms from the buffer
UpdateCommitsBlockEvidenceWitness ==
    \E st \in NewStates : \E evList \in BlockEvidenceLists(st) :
        /\ Update(Pool, st, evList).ret = Ok
        /\ \E i \in 1 .. Len(evList) : isPending(Pool, evList[i])
        /\ \E i \in 1 .. Len(evList) :
               /\ ~isPending(Pool, evList[i])
               /\ isPending(processConsensusBuffer(Pool, st), evList[i])

\* C3 (I2): after every public operation, the hashes of the broadcast list,
\* counted with multiplicity, are the hashes of the pending set.
ListIsPending ==
    /\ ListHashes = PendingHashes
    /\ \A i, j \in 1 .. Len(evidenceList) :
           Hash(evidenceList[i]) = Hash(evidenceList[j]) => i = j

\* C4 (I3): Size() is the number of pending evidence whenever no operation is
\* in progress, also after light client attack evidence that is pending is
\* sent again through CheckEvidence with other ByzantineValidators.
SizeIsPending == evidenceSize = Uint32(Cardinality(pending))

\* C5 (I5, P6): for every pending evidence and every Update to a state in which
\* the evidence is expired, both ages strictly greater, while the pool is not
\* empty, the evidence is not pending once Update has returned.
UpdatePrunesExpired ==
    \A st \in NewStates : \A evList \in BlockEvidenceLists(st) :
        LET r == Update(Pool, st, evList)
        IN \A ev \in pending :
               /\ r.ret = Ok
               /\ evidenceSize # Uint32(0)
               /\ isExpired(updateState(Pool, st), ev.Height, ev.Time)
               => ~isPending(r.pool, ev)

\* the fields of the pool other than the consensus buffer
Unbuffered(p) == [p EXCEPT !.consensusBuffer = <<>>]

\* a step that appends one pair of votes to the consensus buffer
ReportStep == \E voteSet \in VoteSets : consensusBuffer' = Append(consensusBuffer, voteSet)

\* C6 (I6, P7): ReportConflictingVotes appends one pair to the consensus buffer
\* and changes nothing else: the pending set, the committed set, the list,
\* Size(), the cached state and the expiry cursor are as before, and until the
\* next Update the report changes nothing of what AddEvidence and CheckEvidence
\* do to them.
ReportChangesBufferOnly ==
    /\ [][ReportStep => UNCHANGED <<pending, committed, evidenceList, evidenceSize,
                                    state, pruningHeight, pruningTime>>]_vars
    /\ [](\A voteSet \in VoteSets :
              LET p == ReportConflictingVotes(Pool, voteSet)
              IN /\ \A ev \in Evidence :
                        /\ AddEvidence(p, ev).ret = AddEvidence(Pool, ev).ret
                        /\ Unbuffered(AddEvidence(p, ev).pool)
                               = Unbuffered(AddEvidence(Pool, ev).pool)
                 /\ \A evList \in EvidenceLists :
                        /\ CheckEvidence(p, evList).ret = CheckEvidence(Pool, evList).ret
                        /\ Unbuffered(CheckEvidence(p, evList).pool)
                               = Unbuffered(CheckEvidence(Pool, evList).pool))

\* votes of the height of the cached state are buffered, evidence is pending,
\* and the evidence of these votes is not pending
ReportChangesBufferOnlyWitness ==
    /\ consensusBuffer # <<>>
    /\ pending # {}
    /\ \E i \in 1 .. Len(consensusBuffer) :
           /\ consensusBuffer[i].VoteA.Height = state.LastBlockHeight
           /\ ~isPending(Pool, formDuplicateVoteEvidence(consensusBuffer[i], state))

\* C7 (I4): Update with a state whose LastBlockHeight is not above the cached
\* LastBlockHeight panics before it changes anything: the buffer, the cached
\* state, the pending set, the committed set, the list, the size and the cursor
\* are as before the call.
UpdatePanicsUnchanged ==
    \A st \in States : \A evList \in EvidenceLists :
        st.LastBlockHeight <= state.LastBlockHeight
            => Update(Pool, st, evList) = Result(Pool, Panic)

\* the cached state is above the first, at a height a state of the same height
\* and one of a lower height can be sent, with votes buffered and evidence
\* pending that an Update would flush and commit
UpdatePanicsUnchangedWitness ==
    /\ state.LastBlockHeight > InitHeight
    /\ consensusBuffer # <<>>
    /\ \E ev \in pending : <<ev>> \in EvidenceLists

\* C8 (P5): for valid evidence, a second AddEvidence with no Update in between
\* returns Ok and leaves Size(), the pending set and the broadcast list as
\* they were after the first.
AddEvidenceIdempotent ==
    \A ev \in Evidence :
        LET first == AddEvidence(Pool, ev)
            second == AddEvidence(first.pool, ev)
        IN first.ret = Ok => second.ret = Ok /\ second.pool = first.pool

\* evidence that was added is pending and on the list, and still verifies
AddEvidenceIdempotentWitness ==
    \E ev \in Evidence :
        /\ ev \in pending
        /\ \E i \in 1 .. Len(evidenceList) : evidenceList[i] = ev
        /\ verify(Pool, ev)

\* two items of the list have the same hash
HasDuplicate(evList) ==
    \E i, j \in 1 .. Len(evList) : i < j /\ Hash(evList[i]) = Hash(evList[j])

\* C9 (P8): CheckEvidence returns an Invalid error whenever two items of the
\* list have the same hash, whether the evidence is unknown, pending or
\* committed.
CheckEvidenceRejectsDuplicate ==
    \A evList \in EvidenceLists :
        HasDuplicate(evList) => CheckEvidence(Pool, evList).ret \in Invalid

\* lists with a duplicate can be sent whose evidence is pending, committed, and
\* neither, and the one of pending evidence is rejected as a duplicate
CheckEvidenceRejectsDuplicateWitness ==
    /\ \E evList \in EvidenceLists :
           /\ HasDuplicate(evList)
           /\ isPending(Pool, evList[1])
           /\ CheckEvidence(Pool, evList).ret = ErrDuplicate
    /\ \E evList \in EvidenceLists : HasDuplicate(evList) /\ isCommitted(Pool, evList[1])

\* C10: if an item of the list is committed and not pending, CheckEvidence
\* returns an Invalid error and the item is not pending after it.
CheckEvidenceRejectsCommitted ==
    \A evList \in EvidenceLists :
        \A i \in 1 .. Len(evList) :
            Hash(evList[i]) \in CommittedHashes \ PendingHashes
                => LET r == CheckEvidence(Pool, evList)
                   IN /\ r.ret \in Invalid
                      /\ Hash(evList[i]) \notin {Hash(e) : e \in r.pool.pending}

\* a list can be sent whose second item is committed, still verifies, and comes
\* after an item that is accepted
CheckEvidenceRejectsCommittedWitness ==
    \E evList \in EvidenceLists :
        /\ Len(evList) = 2
        /\ Hash(evList[2]) \in CommittedHashes \ PendingHashes
        /\ verify(Pool, evList[2])
        /\ CheckEvidence(Pool, <<evList[1]>>).ret = Ok
        /\ CheckEvidence(Pool, evList).ret = ErrCommitted

\* C11: AddEvidence of evidence that is committed returns Ok without a call of
\* verify, and the pending set, the committed set, the list and Size() are as
\* before.
AddEvidenceCommittedNoOp ==
    \A ev \in PeerEvidence :
        (\E c \in committed : c.key = Key(ev))
            => AddEvidence(Pool, ev) = Result(Pool, Ok)

\* evidence is committed that verify would refuse by now, and evidence that it
\* would accept
AddEvidenceCommittedNoOpWitness ==
    /\ \E ev \in Evidence : (\E c \in committed : c.key = Key(ev)) /\ ~verify(Pool, ev)
    /\ \E ev \in Evidence : (\E c \in committed : c.key = Key(ev)) /\ verify(Pool, ev)

\* C12: when verify fails for evidence that is neither pending nor committed,
\* AddEvidence returns the error and the pool is as before: the evidence is
\* not pending, not on the list, and Size() is unchanged.
AddEvidenceRejectsUnverified ==
    \A ev \in PeerEvidence :
        /\ Hash(ev) \notin PendingHashes \cup CommittedHashes
        /\ ~verify(Pool, ev)
        => AddEvidence(Pool, ev) = Result(Pool, ErrVerify)

\* with evidence pending, a peer can send evidence that is refused for what it
\* holds and evidence that is refused for its age
AddEvidenceRejectsUnverifiedWitness ==
    /\ pending # {}
    /\ \E ev \in InvalidEvidence :
           Hash(ev) \notin PendingHashes \cup CommittedHashes /\ ~verify(Pool, ev)
    /\ \E ev \in Evidence :
           /\ Hash(ev) \notin PendingHashes \cup CommittedHashes
           /\ isExpired(Pool, ev.Height, ev.Time)

\* C13: when the write to the store fails in addPendingEvidence during
\* AddEvidence, AddEvidence returns an error, the size counter is not
\* incremented and the evidence is not pushed onto the broadcast list.
AddEvidenceStoreError ==
    \A ev \in PeerEvidence :
        /\ Hash(ev) \notin PendingHashes \cup CommittedHashes
        /\ verify(Pool, ev)
        => LET r == AddEvidenceSetFails(Pool, ev)
           IN /\ r.ret = ErrStorage
              /\ r.pool.evidenceSize = evidenceSize
              /\ r.pool.evidenceList = evidenceList

\* with evidence pending and listed, other evidence can be sent that verifies
\* and would be stored
AddEvidenceStoreErrorWitness ==
    /\ evidenceList # <<>>
    /\ \E ev \in Evidence :
           Hash(ev) \notin PendingHashes \cup CommittedHashes /\ verify(Pool, ev)

\* C14: if a delete of the batch or its WriteSync fails in
\* markEvidenceAsCommitted or in the prune, Update returns normally and I1
\* (pending and committed disjoint), I2 (the list is the pending set) and I3
\* (Size is the number of pending evidence), which held before it, hold after
\* it.  A step that changes the cached state is a step of Update that returned.
ReconciliationKeepsInvariants ==
    [][(state' # state /\ Disjointness /\ ListIsPending /\ SizeIsPending)
           => (Disjointness /\ ListIsPending /\ SizeIsPending)']_vars

\* the evidence the buffered pair i is to make in an Update to st: of votes of
\* the height of st, with the time and the validators of st; of votes of a
\* lower height, with the header time of the block store and the validators of
\* the state store at that height
ExpectedEvidence(i, st) ==
    LET height == consensusBuffer[i].VoteA.Height
    IN IF height = st.LastBlockHeight
       THEN [type |-> "dve", Height |-> height, Time |-> st.LastBlockTime,
             ValSet |-> st.LastValidators, Block |-> 0, ByzantineValidators |-> <<>>]
       ELSE [type |-> "dve", Height |-> height, Time |-> blockStore[height],
             ValSet |-> ValidatorsAt(height), Block |-> 0, ByzantineValidators |-> <<>>]

\* the pairs of the buffer that make new evidence in an Update to st
MakesEvidence(st) ==
    {i \in 1 .. Len(consensusBuffer) :
        LET height == consensusBuffer[i].VoteA.Height
        IN /\ \/ height = st.LastBlockHeight
              \/ height < st.LastBlockHeight /\ blockStore[height] # NoBlock
           /\ Hash(ExpectedEvidence(i, st)) \notin PendingHashes \cup CommittedHashes}

InKeyOrder == IteratePrefix(pending)
SizeOfFirst(k) == EvidenceListSize(SubSeq(InKeyOrder, 1, k))

\* C16 (S5): for maxBytes >= 0, PendingEvidence(maxBytes) returns the longest
\* prefix of the pending evidence in key order whose size together is at most
\* maxBytes: it stops at the first evidence that does not fit and passes over
\* none; the size it returns is the size of what it returns.
PendingEvidenceByteCap ==
    \A maxBytes \in 0 .. MaxBytes :
        LET r == PendingEvidence(Pool, maxBytes)
            k == Len(r.evidence)
        IN /\ k <= Len(InKeyOrder)
           /\ r.evidence = SubSeq(InKeyOrder, 1, k)
           /\ SizeOfFirst(k) <= maxBytes
           /\ k < Len(InKeyOrder) => SizeOfFirst(k + 1) > maxBytes
           /\ r.size = SizeOfFirst(k)

\* three items are pending; for some budget the first does not fit and a later
\* one alone would, and for some budget the first fits and not all do
PendingEvidenceByteCapWitness ==
    /\ Len(InKeyOrder) >= 3
    /\ \E maxBytes \in 0 .. MaxBytes : \E i \in 2 .. Len(InKeyOrder) :
           SizeOfFirst(1) > maxBytes /\ ProtoSize(InKeyOrder[i]) <= maxBytes
    /\ \E maxBytes \in 0 .. MaxBytes :
           LET k == Len(PendingEvidence(Pool, maxBytes).evidence)
           IN 0 < k /\ k < Len(InKeyOrder)

\* C17: PendingEvidence(-1) returns every pending evidence, by height and then
\* hash ascending: what it returns is fixed by the pending set, whatever the
\* order in which the evidence was added or is on the broadcast list.
PendingEvidenceInKeyOrder ==
    LET r == PendingEvidence(Pool, NoCap).evidence
    IN /\ Len(r) = Cardinality(pending)
       /\ {r[i] : i \in 1 .. Len(r)} = pending
       /\ \A i, j \in 1 .. Len(r) :
              i < j => \/ r[i].Height < r[j].Height
                       \/ r[i].Height = r[j].Height /\ Hash(r[i]) < Hash(r[j])

\* the broadcast list is not in key order: evidence of one height with the
\* greater hash first, and evidence of a greater height before one of a lower
PendingEvidenceInKeyOrderWitness ==
    /\ \E i, j \in 1 .. Len(evidenceList) :
           /\ i < j
           /\ evidenceList[i].Height = evidenceList[j].Height
           /\ Hash(evidenceList[i]) > Hash(evidenceList[j])
    /\ \E i, j \in 1 .. Len(evidenceList) :
           i < j /\ evidenceList[i].Height > evidenceList[j].Height
    /\ ListHashes = PendingHashes

\* the states of the next blocks, the chain's last height included
FurtherStates ==
    {State(h, t) : h \in (state.LastBlockHeight + 1) .. (state.LastBlockHeight + 2),
                   t \in (state.LastBlockTime + 1) .. (state.LastBlockTime + 2)}

\* the evidence an Update to st adds to the pending set, in the order in which
\* it adds it: the order of the pairs in the buffer
RECURSIVE InsertedFrom(_, _)
InsertedFrom(i, st) ==
    IF i > Len(consensusBuffer) THEN <<>>
    ELSE IF /\ i \in MakesEvidence(st)
            /\ \A j \in 1 .. (i - 1) :
                   j \in MakesEvidence(st)
                       => Hash(ExpectedEvidence(j, st)) # Hash(ExpectedEvidence(i, st))
         THEN <<ExpectedEvidence(i, st)>> \o InsertedFrom(i + 1, st)
         ELSE InsertedFrom(i + 1, st)

\* the list after a call that added the evidence inserted, in this order, to
\* the pending set p: the list before it with inserted after it, less the
\* evidence that is not pending any more
ListAfter(inserted, p) ==
    SelectSeq(evidenceList \o inserted, LAMBDA e : \E d \in p.pending : Hash(d) = Hash(e))

CommittedKeys == {c.key : c \in committed}

\* C19: once isCommitted(ev) is true it is true in every later state: no
\* operation, Update and its prune, AddEvidence and CheckEvidence among them,
\* deletes a committed marker.
CommittedIsPermanent == [][CommittedKeys \subseteq CommittedKeys']_vars

\* a marker written by an earlier Update is there after a later one, for
\* evidence that is expired by now, while evidence is pending
CommittedIsPermanentWitness ==
    /\ pending # {}
    /\ \E c \in committed :
           /\ c.height < state.LastBlockHeight
           /\ state.LastBlockHeight - c.key[1] > state.MaxAgeNumBlocks

\* C20: the LastBlockHeight of the cached state is strictly greater after
\* every Update that returns, and State() is then the state Update was called
\* with; no other operation changes the cached state.
CachedStateMonotone ==
    /\ \A st \in NewStates : \A evList \in BlockEvidenceLists(st) :
           LET r == Update(Pool, st, evList)
           IN /\ r.ret = Ok
                  => r.pool.state = st /\ st.LastBlockHeight > state.LastBlockHeight
              /\ r.ret = Panic => r.pool.state = state
    /\ \A ev \in PeerEvidence :
           /\ AddEvidence(Pool, ev).pool.state = state
           /\ AddEvidenceSetFails(Pool, ev).pool.state = state
    /\ \A evList \in EvidenceLists : CheckEvidence(Pool, evList).pool.state = state
    /\ \A voteSet \in VoteSets : ReportConflictingVotes(Pool, voteSet).state = state
    /\ NewPool(pending, committed, state).state = state

\* two Updates have returned, and a third can be called with a state above
\* the cached one, with an equal one and with a lower one
CachedStateMonotoneWitness ==
    /\ state.LastBlockHeight = InitHeight + 2
    /\ blockStore[InitHeight + 1] # NoBlock
    /\ \E st \in NewStates : st.LastBlockHeight = state.LastBlockHeight
    /\ \E st \in NewStates : st.LastBlockHeight < state.LastBlockHeight

\* how often the evidence is on the broadcast list
Occurrences(list, ev) == Cardinality({i \in 1 .. Len(list) : list[i] = ev})

\* C21: when two threads have called AddEvidence with the same evidence,
\* valid and neither pending nor committed when the first call began, in any
\* interleaving, then after both have returned the pending set holds it once,
\* the broadcast list holds it once and the size is one more than before.
ConcurrentAddEvidenceSafe ==
    \A ev \in Evidence :
        (/\ \A t \in Threads : calls[t].pc = "returned" /\ calls[t].ev = ev
         /\ ~isPending(calls[1].before, ev)
         /\ ~isCommitted(calls[1].before, ev)
         /\ verify(calls[1].before, ev))
        => /\ Cardinality(StoredUnder(Pool, Key(ev))) = 1
           /\ Occurrences(evidenceList, ev) = 1
           /\ evidenceSize = Uint32Add(calls[1].before.evidenceSize, Uint32(1))

\* the committed markers of the evidence of a block, at a height
MarkedAt(evList, height) ==
    \A i \in 1 .. Len(evList) :
        /\ [key |-> Key(evList[i]), height |-> height] \in committed
        /\ ~isPending(Pool, evList[i])

\* C22: Update flushes the consensus buffer with the state it is given, then
\* replaces the cached state, then marks the evidence of the block committed,
\* then prunes against the new cached state: when a step starts the steps
\* before it are done and no later step has acted, and when Update returns
\* the pool is the one the four steps make in this order.
UpdateStepsInOrder ==
    LET before == updating.before
        st == updating.st
        cursorKept == pruningHeight = before.pruningHeight
                      /\ pruningTime = before.pruningTime
    IN /\ updating.pc = "processConsensusBuffer" => Pool = before
       /\ updating.pc = "updateState" =>
              /\ consensusBuffer = <<>>
              /\ \A e \in pending \ before.pending :
                     \E i \in 1 .. Len(before.consensusBuffer) :
                         e = formDuplicateVoteEvidence(before.consensusBuffer[i], st)
              /\ state = before.state
              /\ committed = before.committed
              /\ cursorKept
       /\ updating.pc = "markEvidenceAsCommitted" =>
              /\ consensusBuffer = <<>>
              /\ state = st
              /\ committed = before.committed
              /\ cursorKept
       /\ updating.pc = "removeExpiredPendingEvidence" =>
              /\ consensusBuffer = <<>>
              /\ state = st
              /\ MarkedAt(updating.ev, st.LastBlockHeight)
              /\ cursorKept
       /\ updating.pc = "returned" =>
              /\ Pool = Update(before, st, updating.ev).pool
              /\ MarkedAt(updating.ev, st.LastBlockHeight)

\* an Update that has done the four steps: the buffer held votes that made
\* evidence, the block carried pending evidence, and the prune removed
\* expired evidence
UpdateStepsInOrderWitness ==
    /\ updating.pc = "returned"
    /\ updating.before.consensusBuffer # <<>>
    /\ \E i \in 1 .. Len(updating.ev) : isPending(updating.before, updating.ev[i])
    /\ \E e \in updating.before.pending :
           /\ \A i \in 1 .. Len(updating.ev) : Key(e) # Key(updating.ev[i])
           /\ e \notin pending

\* the pending evidence that is not older than the expiry window of the
\* cached state in height and in time both
Live == {e \in pending :
            \/ state.LastBlockHeight - e.Height <= state.MaxAgeNumBlocks
            \/ state.LastBlockTime - e.Time <= state.MaxAgeDuration}
FirstLive == CHOOSE e \in Live : \A o \in Live : o = e \/ KeyLess(Key(e), Key(o))

\* Update is at its prune and the prune is due
Pruning ==
    /\ updating.pc = "removeExpiredPendingEvidence"
    /\ pruneDue(Pool, updating.st)

\* C23: after a prune pass whose scan reaches a first pending item (h, t) that
\* is not expired the cursor is (h + MaxAgeNumBlocks + 1, t + MaxAgeDuration +
\* 1s); after a prune pass that found every pending item expired, or none
\* pending, the cursor is (LastBlockHeight, LastBlockTime) of the cached state.
PruneSetsCursor ==
    Pruning =>
        LET p == removeExpiredPendingEvidence(Pool)
        IN IF Live = {}
           THEN /\ p.pruningHeight = state.LastBlockHeight
                /\ p.pruningTime = state.LastBlockTime
           ELSE /\ p.pruningHeight = FirstLive.Height + state.MaxAgeNumBlocks + 1
                /\ p.pruningTime = FirstLive.Time + state.MaxAgeDuration + 1

\* a prune pass that scans expired evidence and then reaches evidence that is
\* not expired
PruneSetsCursorWitness ==
    /\ Pruning
    /\ Live # {}
    /\ pending \ Live # {}

\* Update has marked the evidence of the block and is at its prune
AtPrune == updating.pc = "removeExpiredPendingEvidence"
\* the size is not 0 and the state Update was given is past the cursor
PastCursor ==
    /\ evidenceSize # Uint32(0)
    /\ updating.st.LastBlockHeight > pruningHeight
    /\ updating.st.LastBlockTime > pruningTime

\* C24: Update runs the prune pass if and only if, after the evidence of the
\* block is marked, the size is above 0, the height of the state is above
\* pruningHeight and its time is after pruningTime; when the pass does not
\* run the cursor is the one before the Update and no pending evidence
\* outside the block's list is removed by the Update.
PruneIsGated ==
    AtPrune =>
        LET r == Update(updating.before, updating.st, updating.ev).pool
        IN /\ PastCursor => r = removeExpiredPendingEvidence(Pool)
           /\ ~PastCursor =>
                  /\ r = Pool
                  /\ r.pruningHeight = updating.before.pruningHeight
                  /\ r.pruningTime = updating.before.pruningTime
                  /\ \A e \in updating.before.pending :
                         (\A i \in 1 .. Len(updating.ev) : Key(e) # Key(updating.ev[i]))
                         => e \in r.pending

\* an Update that does not prune, of a pool that holds expired evidence the
\* block does not carry
PruneIsGatedWitness ==
    /\ AtPrune
    /\ ~PastCursor
    /\ evidenceSize # Uint32(0)
    /\ pending \ Live # {}

\* the expired evidence at the start of the pending set in key order: the
\* evidence with no evidence that is not expired at or before it
ExpiredAtStart ==
    {e \in pending : \A o \in Live : KeyLess(Key(e), Key(o))}

\* C25: a prune pass deletes exactly the maximal run of expired items at the
\* start of the pending set in key order, and no item whose age in height is
\* at most MaxAgeNumBlocks or whose age in time is at most MaxAgeDuration;
\* each deleted item is removed from the broadcast list and the size drops
\* by the number of deleted items.
PruneRemovesExpiredOnly ==
    Pruning =>
        LET p == removeExpiredPendingEvidence(Pool)
            deleted == pending \ p.pending
        IN /\ p.pending \subseteq pending
           /\ deleted = ExpiredAtStart
           /\ deleted \cap Live = {}
           /\ p.evidenceList =
                  SelectSeq(evidenceList, LAMBDA ev : \A d \in deleted : Hash(d) # Hash(ev))
           /\ evidenceSize = Uint32Add(p.evidenceSize, Uint32(Cardinality(deleted)))

\* a prune pass that deletes evidence of the broadcast list and leaves
\* evidence on it
PruneRemovesExpiredOnlyWitness ==
    /\ Pruning
    /\ \E i, j \in 1 .. Len(evidenceList) :
           /\ evidenceList[i] \in ExpiredAtStart
           /\ evidenceList[j] \in Live

\* Update has flushed the consensus buffer
Flushed ==
    updating.pc \in {"updateState", "markEvidenceAsCommitted",
                     "removeExpiredPendingEvidence", "returned"}

\* the votes of the pair are above the state Update is given, or they are
\* below it and the stores have no block and no validators for their height
Unusable(voteSet, st) ==
    \/ voteSet.VoteA.Height > st.LastBlockHeight
    \/ /\ voteSet.VoteA.Height < st.LastBlockHeight
       /\ blockStore[voteSet.VoteA.Height] = NoBlock

\* duplicate vote evidence of the height, pending or on the list, that was
\* not there before the Update
MadeAt(height) ==
    {e \in pending \ updating.before.pending : e.type = "dve" /\ e.Height = height}
    \cup {evidenceList[i] : i \in
             {j \in 1 .. Len(evidenceList) :
                 /\ evidenceList[j].type = "dve"
                 /\ evidenceList[j].Height = height
                 /\ \A k \in 1 .. Len(updating.before.evidenceList) :
                        updating.before.evidenceList[k] # evidenceList[j]}}

\* C26: a buffered pair whose votes are above state.LastBlockHeight, or whose
\* validator set or block meta cannot be loaded, makes no pending evidence,
\* and when Update returns the consensus buffer is empty: no later Update
\* processes the pair.
SkippedPairsAreDropped ==
    Flushed =>
        /\ consensusBuffer = <<>>
        /\ \A i \in 1 .. Len(updating.before.consensusBuffer) :
               LET voteSet == updating.before.consensusBuffer[i]
               IN Unusable(voteSet, updating.st) => MadeAt(voteSet.VoteA.Height) = {}

\* Update has returned; the buffer held a pair below the state with no block
\* stored for its height and a pair that made evidence
SkippedPairsAreDroppedWitness ==
    /\ updating.pc = "returned"
    /\ \E i \in 1 .. Len(updating.before.consensusBuffer) :
           LET voteSet == updating.before.consensusBuffer[i]
           IN /\ voteSet.VoteA.Height < updating.st.LastBlockHeight
              /\ blockStore[voteSet.VoteA.Height] = NoBlock
    /\ pending \ updating.before.pending # {}

\* Update has flushed the consensus buffer and has done nothing else
JustFlushed == updating.pc = "updateState"

\* the evidence the pairs of the buffer of a pool make with the state Update
\* is given
BufferEvidence(p, st) ==
    {formDuplicateVoteEvidence(p.consensusBuffer[i], st) :
        i \in {j \in 1 .. Len(p.consensusBuffer) : ~Unusable(p.consensusBuffer[j], st)}}
\* the evidence among it that is pending or committed in the pool
KnownPending(p, st) ==
    {e \in BufferEvidence(p, st) : \E o \in p.pending : Key(o) = Key(e)}
KnownCommitted(p, st) ==
    {e \in BufferEvidence(p, st) : \E c \in p.committed : c.key = Key(e)}

\* the flush of the buffer of a pool adds each evidence of the buffer that
\* is not pending and not committed once, and nothing else
AddsEachOnce(before, after, st) ==
    LET added == BufferEvidence(before, st)
                     \ (KnownPending(before, st) \cup KnownCommitted(before, st))
        oldLen == Len(before.evidenceList)
    IN /\ after.pending = before.pending \cup added
       /\ Len(after.evidenceList) = oldLen + Cardinality(added)
       /\ SubSeq(after.evidenceList, 1, oldLen) = before.evidenceList
       /\ \A e \in added :
              Cardinality({i \in oldLen + 1 .. Len(after.evidenceList) :
                              after.evidenceList[i] = e}) = 1
       /\ after.evidenceSize =
              Uint32Add(before.evidenceSize, Uint32(Cardinality(added)))

\* C27: when the consensus buffer holds a pair more than once, or a pair
\* whose evidence is pending or committed, processConsensusBuffer adds at
\* most one pending entry for that evidence, and none if it was pending or
\* committed; the size and the broadcast list grow by at most one per
\* distinct evidence.  This holds of the flush an Update has done, and of the
\* flush of the next Update, whatever state it is given.
BufferIsDeduplicated ==
    /\ JustFlushed => AddsEachOnce(updating.before, Pool, updating.st)
    /\ updating.pc = "idle" =>
           \A st \in FurtherStates :
               AddsEachOnce(Pool, processConsensusBuffer(Pool, st), st)

\* the buffer held one pair twice, and the pair made evidence
BufferIsDeduplicatedWitness ==
    /\ JustFlushed
    /\ BufferEvidence(updating.before, updating.st)
           \ KnownPending(updating.before, updating.st) # {}
    /\ Len(updating.before.consensusBuffer) = 2
    /\ updating.before.consensusBuffer[1] = updating.before.consensusBuffer[2]

\* Update is at the marking of the evidence of the block
AtMark == updating.pc = "markEvidenceAsCommitted"
BlockKeys == {Key(updating.ev[i]) : i \in 1 .. Len(updating.ev)}
PendingInBlock == {e \in pending : Key(e) \in BlockKeys}

\* C28: markEvidenceAsCommitted records a committed marker for every evidence
\* of the block's list, pending or not, whose value is the commit height given
\* to Update; evidence of the list that was not pending changes nothing of the
\* pending set, the broadcast list and the size: these lose the pending
\* evidence of the list and nothing else.
MarkRecordsCommitHeight ==
    AtMark =>
        LET p == markEvidenceAsCommitted(Pool, updating.ev, updating.st.LastBlockHeight)
        IN /\ \A k \in BlockKeys :
                  {c \in p.committed : c.key = k}
                      = {[key |-> k, height |-> updating.st.LastBlockHeight]}
           /\ \A c \in committed : c.key \notin BlockKeys => c \in p.committed
           /\ p.pending = pending \ PendingInBlock
           /\ p.evidenceList =
                  SelectSeq(evidenceList,
                            LAMBDA ev : \A e \in PendingInBlock : Hash(e) # Hash(ev))
           /\ evidenceSize =
                  Uint32Add(p.evidenceSize, Uint32(Cardinality(PendingInBlock)))
           /\ PendingInBlock = {} =>
                  /\ p.pending = pending
                  /\ p.evidenceList = evidenceList
                  /\ p.evidenceSize = evidenceSize

\* the block carries evidence that is not pending and no evidence that is,
\* the pool holds pending evidence, and the chain is at another height than
\* the evidence
MarkRecordsCommitHeightWitness ==
    /\ AtMark
    /\ updating.ev # <<>>
    /\ PendingInBlock = {}
    /\ pending # {}
    /\ \E k \in BlockKeys : k[1] # updating.st.LastBlockHeight

\* the items of the list CheckEvidence has to verify and store: fastCheck
\* does not find them
Unchecked(evList) == {i \in 1 .. Len(evList) : ~fastCheck(Pool, evList[i])}

\* nothing but the store fails for the list: every item is found by fastCheck
\* or is not committed and verifies, and no two items have one hash
NothingElseFails(evList) ==
    /\ \A i \in Unchecked(evList) :
           /\ \A c \in committed : c.key # Key(evList[i])
           /\ verify(Pool, evList[i])
    /\ \A i, j \in 1 .. Len(evList) : i # j => Hash(evList[i]) # Hash(evList[j])

\* C29: in CheckEvidence an error of the store for evidence that has just
\* verified is not fatal: the item counts as valid, the loop goes on with
\* the next item and CheckEvidence returns Ok if nothing else fails; the
\* item is not stored and the size is not incremented for it.
CheckEvidenceStoreError ==
    \A evList \in ProposedLists : \A failing \in FailingWrites(evList) :
        LET r == CheckEvidenceSetFails(Pool, evList, failing)
            stored == Unchecked(evList) \ failing
        IN /\ r.ret \in {Ok, ErrCommitted, ErrVerify, ErrDuplicate}
           /\ NothingElseFails(evList) =>
                  /\ r.ret = Ok
                  /\ r.pool.evidenceSize =
                         Uint32Add(evidenceSize, Uint32(Cardinality(stored)))
                  /\ \A i \in Unchecked(evList) \cap failing :
                         evList[i] \notin r.pool.pending
                  /\ \A i \in stored : evList[i] \in r.pool.pending
           /\ failing = 1 .. Len(evList) => r.pool = Pool

\* a list of two items that verify and are not pending, where the store
\* fails for the first and writes the second
CheckEvidenceStoreErrorWitness ==
    \E evList \in ProposedLists :
        /\ Len(evList) = 2
        /\ Unchecked(evList) = {1, 2}
        /\ NothingElseFails(evList)
        /\ CheckEvidenceSetFails(Pool, evList, {1}).pool.pending = pending \cup {evList[2]}

\* the lists of duplicate vote evidence that is pending, no item twice
PendingDuplicateVoteLists ==
    {evList \in SeqsUpTo({e \in pending : e.type = "dve"}, MaxEvList) :
        \A i, j \in 1 .. Len(evList) : i # j => evList[i] # evList[j]}

\* C30: CheckEvidence of a list of pairwise distinct duplicate vote evidence
\* that is all pending returns Ok without a call of verify (whether the
\* evidence would verify or not) and leaves the pending set, the committed
\* set, the broadcast list and the size as they are.
FastCheckShortCircuit ==
    \A evList \in PendingDuplicateVoteLists :
        CheckEvidence(Pool, evList) = Result(Pool, Ok)

\* two pending duplicate vote evidence, one of which does not verify any more
FastCheckShortCircuitWitness ==
    \E evList \in PendingDuplicateVoteLists :
        /\ Len(evList) = 2
        /\ \E i \in 1 .. 2 : ~verify(Pool, evList[i])

\* a light client attack as a proposer can send it: with any of the lists of
\* byzantine validators, sorted or not
AttackVariants ==
    {LightClientAttackEvidence(1, InitHeight, InitTime, b) :
        b \in ByzLists \cup {<<ValB, ValA>>, <<ValB>>}}

\* the two lists hold the same validators as often
SameValidators(a, b) ==
    /\ Len(a) = Len(b)
    /\ \A v \in {a[i] : i \in 1 .. Len(a)} \cup {b[i] : i \in 1 .. Len(b)} :
           Cardinality({i \in 1 .. Len(a) : a[i] = v})
               = Cardinality({i \in 1 .. Len(b) : b[i] = v})
\* the list is in the order of voting power
ByVotingPower(a) == \A i, j \in 1 .. Len(a) : i < j => ~ValidatorLess(a[j], a[i])

\* the pool holds pending evidence under the key of the attack whose byzantine
\* validators are the ones of the attack, sorted by voting power
HoldsAttack(ev) ==
    \E e \in pending :
        /\ Key(e) = Key(ev)
        /\ SameValidators(e.ByzantineValidators, ev.ByzantineValidators)
        /\ ByVotingPower(e.ByzantineValidators)

\* C31: fastCheck accepts light client attack evidence only when the pool
\* holds pending evidence under the same key whose byzantine validators equal
\* the proposed list, sorted again by voting power, in length and in address
\* and voting power at every position; on a mismatch, or when the evidence is
\* not pending, CheckEvidence goes on to the isCommitted check and to verify.
FastCheckComparesValidators ==
    \A ev \in AttackVariants :
        LET r == CheckEvidence(Pool, <<ev>>)
        IN /\ fastCheck(Pool, ev) <=> HoldsAttack(ev)
           /\ HoldsAttack(ev) => r = Result(Pool, Ok)
           /\ ~HoldsAttack(ev) =>
                  r.ret = IF \E c \in committed : c.key = Key(ev) THEN ErrCommitted
                          ELSE IF ~verify(Pool, ev) THEN ErrVerify
                          ELSE Ok

\* the pool holds the attack with two byzantine validators: the list in
\* another order matches, a list of one of them does not
FastCheckComparesValidatorsWitness ==
    /\ LightClientAttackEvidence(1, InitHeight, InitTime, <<ValA, ValB>>) \in pending
    /\ HoldsAttack(LightClientAttackEvidence(1, InitHeight, InitTime, <<ValB, ValA>>))
    /\ ~HoldsAttack(LightClientAttackEvidence(1, InitHeight, InitTime, <<ValA>>))
    /\ CheckEvidence(Pool, <<LightClientAttackEvidence(1, InitHeight, InitTime, <<ValA>>)>>).ret
           \in {Ok, ErrVerify}

\* in the order of the keys
KeyOrdered(list) == \A i, j \in 1 .. Len(list) : i < j => KeyLess(Key(list[i]), Key(list[j]))

\* C32: NewPool on a store that holds pending evidence returns a pool whose
\* pending set has lost the expired evidence at the start of the key order
\* (expired by the loaded state), whose size is the number of pending entries
\* that remain and whose broadcast list holds exactly those, in key order.
StartupReconciles ==
    LET p == NewPool(pending, committed, state)
    IN /\ p.pending = pending \ ExpiredAtStart
       /\ p.evidenceSize = Uint32(Cardinality(p.pending))
       /\ {p.evidenceList[i] : i \in 1 .. Len(p.evidenceList)} = p.pending
       /\ Len(p.evidenceList) = Cardinality(p.pending)
       /\ KeyOrdered(p.evidenceList)
       /\ p.committed = committed /\ p.state = state

\* a store with expired evidence before evidence that is not expired, of a
\* pool whose list and size are not the ones a new pool has
StartupReconcilesWitness ==
    /\ ExpiredAtStart # {}
    /\ Cardinality(Live) >= 1
    /\ evidenceList # IteratePrefix(Live)

\* C33: one AddEvidence(ev) on the gossip thread runs with one Update(state,
\* evList) where ev is in evList, interleaved in any way: when both have
\* returned, ev is not in the pending set and in the committed set at once.
AddEvidenceRacingUpdate ==
    /\ calls[Gossip].pc = "returned"
    /\ updating.pc = "returned"
    /\ \E i \in 1 .. Len(updating.ev) : updating.ev[i] = calls[Gossip].ev
    => ~(/\ calls[Gossip].ev \in pending
         /\ \E c \in committed : c.key = Key(calls[Gossip].ev))

\* the pair is done with: nothing can be made of it, or its evidence is in
\* the pool
Processed(voteSet) ==
    \/ voteSetSkipped(voteSet, updating.st)
    \/ LET dve == formDuplicateVoteEvidence(voteSet, updating.st)
       IN \/ \E e \in pending : Key(e) = Key(dve)
          \/ \E c \in committed : c.key = Key(dve)

\* C34: ReportConflictingVotes runs with an Update, interleaved in any way:
\* every reported pair is processed by exactly one Update, the one in progress
\* or the next.  The buffer changes by a pair appended to it, or by the reset of
\* the Update that has processed every pair in it (none is lost) and leaves
\* none of them in it (none is processed again).
ReportRacingUpdate ==
    [][\/ UNCHANGED consensusBuffer
       \/ \E voteSet \in VoteSets : consensusBuffer' = Append(consensusBuffer, voteSet)
       \/ /\ updating.pc = "resetBuffer"
          /\ \A i \in 1 .. Len(consensusBuffer) : Processed(consensusBuffer[i])
          /\ consensusBuffer' = <<>>]_vars

\* a pair is reported while Update is past processConsensusBuffer: it waits
\* in the buffer for the next Update
ReportRacingUpdateWitness ==
    /\ updating.pc \in {"updateState", "markEvidenceAsCommitted",
                        "removeExpiredPendingEvidence"}
    /\ consensusBuffer # <<>>
    /\ \E e \in pending : e.type = "dve"

\* C35: with Update called for one block at a time and AddEvidence running
\* with it, the size counter is never decremented below zero: it holds no
\* value near 2^32 in any reachable state, the states between the steps of
\* the calls included.
SizeNeverWraps == evidenceSize[1] < HalfWord - 1

\* C36: in any interleaving of Update, ReportConflictingVotes, State,
\* AddEvidence and PendingEvidence no thread blocks forever on the mutex of
\* the pool: the mutex is held only inside processConsensusBuffer, no step asks
\* for it while its thread holds it, and every Update that passed the check of
\* the height returns, given that the store operations return.
UpdateReturns ==
    /\ [](mtx # Free <=> updating.pc \in {"forVoteSets", "resetBuffer"})
    /\ (updating.pc = "processConsensusBuffer") ~> (updating.pc = "returned")

\* Update holds the mutex with pairs in the buffer, after another Update
\* has returned
UpdateReturnsWitness ==
    /\ mtx = "Update"
    /\ updating.pc = "forVoteSets"
    /\ consensusBuffer # <<>>
    /\ state.LastBlockHeight > InitHeight

PendingKeys(p) == {Key(e) : e \in p.pending}

\* the first n items of the list pass: each is pending or verifies when the
\* loop reaches it
Passes(evList, n) == checkFrom(Pool, SubSeq(evList, 1, n), 1).ret = Ok

\* C37: CheckEvidence only adds to the pending set: with Ok or with an error
\* it removes no pending evidence and leaves the committed set, the consensus
\* buffer, the cached state and the expiry cursor as they are; the items that
\* were verified before an item failed remain pending.
CheckEvidenceOnlyAdds ==
    \A evList \in ProposedLists :
        LET r == CheckEvidence(Pool, evList)
        IN /\ PendingKeys(Pool) \subseteq PendingKeys(r.pool)
           /\ r.pool.committed = committed
           /\ r.pool.consensusBuffer = consensusBuffer
           /\ r.pool.state = state
           /\ r.pool.pruningHeight = pruningHeight
           /\ r.pool.pruningTime = pruningTime
           /\ \A n \in 1 .. Len(evList) :
                  Passes(evList, n) =>
                      \A i \in 1 .. n : Key(evList[i]) \in PendingKeys(r.pool)

\* with evidence pending: a list whose first item is new and verifies and
\* whose second item fails; the first item is pending after the call
CheckEvidenceOnlyAddsWitness ==
    /\ pending # {}
    /\ \E evList \in ProposedLists :
           /\ Len(evList) = 2
           /\ Key(evList[1]) \notin PendingKeys(Pool)
           /\ Passes(evList, 1)
           /\ CheckEvidence(Pool, evList).ret \in {ErrCommitted, ErrVerify}
           /\ Key(evList[1]) \in PendingKeys(CheckEvidence(Pool, evList).pool)

\* C38: whenever the pending set goes from empty to non-empty, through
\* AddEvidence or through an Update that flushes a buffered pair, the
\* broadcast list becomes non-empty (EvidenceFront is not nil) and the channel
\* of EvidenceWaitChan is closed, so that a gossip loop that waits on it
\* eventually proceeds.
GossipWakeUp ==
    /\ [][pending = {} /\ pending' # {} =>
              /\ EvidenceFront(Pool)' # Nil
              /\ EvidenceWaitChan(Pool)' = "closed"
              /\ gossip = "waiting" => gossip' = "woken"]_vars
    /\ (gossip = "waiting" /\ pending # {}) ~> (gossip = "iterating")
    /\ (gossip = "woken") ~> (gossip = "iterating")

\* the loop waited on an empty list and was woken by duplicate vote evidence
\* of the buffer
GossipWakeUpWitness ==
    /\ gossip = "woken"
    /\ pending # {}
    /\ \A e \in pending : e.type = "dve"
    /\ EvidenceFront(Pool) \in pending

\* size - n modulo 2^32, for 1 <= n < 2^16: the low half borrows from the
\* high half
Minus(size, n) ==
    IF size[2] >= n THEN <<size[1], size[2] - n>>
    ELSE <<(size[1] + HalfWord - 1) % HalfWord, size[2] + HalfWord - n>>

\* values of the counter: small ones, the ones around 2^16 and the largest
SizeSamples ==
    {<<high, low>> : high \in {0, 1, HalfWord - 1},
                     low \in {0, 1, 2, HalfWord - 2, HalfWord - 1}}
        \cup {evidenceSize}

\* the distinct hashes of the pending evidence of the list
HashesOfPending(evList) ==
    {Hash(evList[i]) : i \in {j \in 1 .. Len(evList) : Key(evList[j]) \in PendingKeys(Pool)}}

\* the distinct hashes of the expired evidence the prune deletes
HashesOfExpired(failedDeletes) ==
    {Hash(e) : e \in {x \in ExpiredAtStart : Key(x) \notin failedDeletes}}

\* C39: the decrement of the size counter, atomic.AddUint32(&size,
\* ^uint32(n - 1)), is the subtraction of n modulo 2^32 for every n >= 1,
\* where n is the number of distinct hashes removed; it is executed only when
\* n >= 1 and only after the WriteSync of the batch succeeded.
DecrementSubtracts ==
    /\ \A size \in SizeSamples : \A n \in 1 .. (MaxSize + 1) :
           SubtractSize(size, n) = Minus(size, n)
    /\ \A evList \in EvidenceLists : \A writeSyncFails \in BOOLEAN :
           \A failedDeletes \in {{}} \cup {{Key(evList[i])} : i \in 1 .. Len(evList)} :
               LET n == Cardinality(HashesOfPending(evList))
                   p == markEvidenceAsCommittedStoreErrors(Pool, evList,
                            state.LastBlockHeight, failedDeletes, writeSyncFails)
               IN p.evidenceSize = IF n >= 1 /\ ~writeSyncFails
                                   THEN Minus(evidenceSize, n) ELSE evidenceSize
    /\ \A writeSyncFails \in BOOLEAN :
           \A failedDeletes \in {{}} \cup {{Key(e)} : e \in pending} :
               LET n == Cardinality(HashesOfExpired(failedDeletes))
                   p == removeExpiredPendingEvidenceStoreErrors(Pool, failedDeletes,
                                                                writeSyncFails)
               IN p.evidenceSize = IF n >= 1 /\ ~writeSyncFails
                                   THEN Minus(evidenceSize, n) ELSE evidenceSize

\* two pending evidence are in the block: the counter loses 2 when the batch
\* is written and nothing when WriteSync fails; and an expired evidence is
\* pending, for the prune
DecrementSubtractsWitness ==
    /\ evidenceSize = Uint32(2)
    /\ \E evList \in EvidenceLists :
           /\ Cardinality(HashesOfPending(evList)) = 2
           /\ markEvidenceAsCommittedStoreErrors(Pool, evList, state.LastBlockHeight,
                                                 {}, FALSE).evidenceSize = Uint32(0)
           /\ markEvidenceAsCommittedStoreErrors(Pool, evList, state.LastBlockHeight,
                                                 {}, TRUE).evidenceSize = Uint32(2)
    /\ HashesOfExpired({}) # {}

====
